---- MODULE Spec2Model ----
(***************************************************************************)
(* Model of shared/ansible/inventory/dynamic_inventory.py: environment     *)
(* discovery, inventory loading, SOPS secret resolution, the merge engine, *)
(* the validator and the command-line dispatch of main(); and of the       *)
(* variable export convert_ansible_to_terraform_vars of                    *)
(* shared/scripts/get-ansible-vars.py.                                     *)
(*                                                                         *)
(* Python values are modelled as tagged records, Python strings as         *)
(* sequences of code points (so that sorted() and the f-string             *)
(* "{env_name}_{var_name}" are computed, not assumed), Python dicts as     *)
(* insertion-ordered association lists.                                    *)
(***************************************************************************)
EXTENDS Integers, Sequences, FiniteSets, TLC

VARIABLES
    fs,              \* the repository tree under <repo_root>/environments
    sops_available,  \* DynamicInventory.sops_available, set by __init__
    cmd,             \* the last command line dispatched by main()
    listing,         \* order in which iterdir() enumerated the environments
    out,             \* the JSON document main() printed (NoOutput if none)
    exit_code,       \* the exit status of the process
    log,             \* levels of the records logged at WARNING or above
    pc,              \* "start" before main() dispatches, "exited" after
    ansible_vars,    \* get-ansible-vars.py: the host's variables, as collected
    tf_vars,         \* get-ansible-vars.py: the converted variables, PyNone before
    merge_input      \* the dict passed to _merge_inventories, as the caller
                     \* holds it: <<env_name, tree>> in insertion order

vars == <<fs, sops_available, cmd, listing, out, exit_code, log, pc,
          ansible_vars, tf_vars, merge_input>>

----------------------------------------------------------------------------
(* Bounds of the model *)

NumEnvs == 3         \* names an environment directory may have
NumPresent == 2      \* environment directories of a repository whose files vary
NumHosts == 2        \* host names

----------------------------------------------------------------------------
(* String literals of the source, as code points *)

S_all == <<97, 108, 108>>                                    \* "all"
S_meta == <<95, 109, 101, 116, 97>>                          \* "_meta"
S_children == <<99, 104, 105, 108, 100, 114, 101, 110>>      \* "children"
S_vars == <<118, 97, 114, 115>>                              \* "vars"
S_hosts == <<104, 111, 115, 116, 115>>                       \* "hosts"
S_hostvars == <<104, 111, 115, 116, 118, 97, 114, 115>>      \* "hostvars"
S_environment_info ==
    <<101, 110, 118, 105, 114, 111, 110, 109, 101, 110, 116, 95, 105, 110, 102, 111>>
S_environment == <<101, 110, 118, 105, 114, 111, 110, 109, 101, 110, 116>>
S_source == <<115, 111, 117, 114, 99, 101>>                  \* "source"
S_hosts_count == <<104, 111, 115, 116, 115, 95, 99, 111, 117, 110, 116>>
S_groups_count == <<103, 114, 111, 117, 112, 115, 95, 99, 111, 117, 110, 116>>
S_sops_secrets_count ==
    <<115, 111, 112, 115, 95, 115, 101, 99, 114, 101, 116, 115, 95, 99, 111, 117, 110, 116>>
S_valid == <<118, 97, 108, 105, 100>>                        \* "valid"
S_errors == <<101, 114, 114, 111, 114, 115>>                 \* "errors"
S_warnings == <<119, 97, 114, 110, 105, 110, 103, 115>>      \* "warnings"
S_groups == <<103, 114, 111, 117, 112, 115>>                 \* "groups"
S_environments ==
    <<101, 110, 118, 105, 114, 111, 110, 109, 101, 110, 116, 115>>
S_count == <<99, 111, 117, 110, 116>>                        \* "count"
S_ansible_host == <<97, 110, 115, 105, 98, 108, 101, 95, 104, 111, 115, 116>>
S_cluster_role == <<99, 108, 117, 115, 116, 101, 114, 95, 114, 111, 108, 101>>
S_hosts_toml == <<104, 111, 115, 116, 115, 46, 116, 111, 109, 108>>
S_hosts_yaml == <<104, 111, 115, 116, 115, 46, 121, 97, 109, 108>>
S_underscore == <<95>>                                       \* "_"
S_slash == <<47>>                                            \* "/"

----------------------------------------------------------------------------
(* Python str operations *)

\* a < b for Python str: lexicographic by code point
StrLess(a, b) ==
    \E i \in 1..Len(b) :
        /\ i <= Len(a) + 1
        /\ \A j \in 1..(i - 1) : a[j] = b[j]
        /\ (i = Len(a) + 1 \/ a[i] < b[i])

\* needle in hay, for two str
Contains(hay, needle) ==
    \E i \in 0..(Len(hay) - Len(needle)) :
        SubSeq(hay, i + 1, i + Len(needle)) = needle

\* the list unchanged: what a missing sorted() would return
unsorted(s) == s

\* sorted(list of str): stable insertion sort
RECURSIVE sorted(_)
sorted(s) ==
    IF s = <<>> THEN <<>>
    ELSE LET r == sorted(SubSeq(s, 1, Len(s) - 1))
             x == s[Len(s)]
             n == Cardinality({i \in 1..Len(r) : ~StrLess(x, r[i])})
         IN  SubSeq(r, 1, n) \o <<x>> \o SubSeq(r, n + 1, Len(r))

----------------------------------------------------------------------------
(* Python values *)

PyNone == [t |-> "none"]
PyBool(b) == [t |-> "bool", b |-> b]
PyInt(n) == [t |-> "int", i |-> n]
PyStr(s) == [t |-> "str", s |-> s]
PyList(l) == [t |-> "list", l |-> l]
PyDict(kv) == [t |-> "dict", kv |-> kv]
EmptyDict == PyDict(<<>>)
EmptyList == PyList(<<>>)

IsDict(v) == v.t = "dict"
IsList(v) == v.t = "list"
IsStr(v) == v.t = "str"

\* bool(v)
Truthy(v) ==
    CASE v.t = "none" -> FALSE
      [] v.t = "bool" -> v.b
      [] v.t = "int"  -> v.i # 0
      [] v.t = "str"  -> v.s # <<>>
      [] v.t = "list" -> v.l # <<>>
      [] v.t = "dict" -> v.kv # <<>>

\* list(d.keys())
Keys(d) == [i \in 1..Len(d.kv) |-> d.kv[i][1]]

\* k in d, for a dict d
HasKey(d, k) == \E i \in 1..Len(d.kv) : d.kv[i][1] = k

\* d[k], for a dict d that has k
Lookup(d, k) == d.kv[CHOOSE i \in 1..Len(d.kv) : d.kv[i][1] = k][2]

\* d.get(k, default)
GetOr(d, k, default) == IF HasKey(d, k) THEN Lookup(d, k) ELSE default

\* d[k] = v: a new key is appended, an existing one keeps its place
SetItem(d, k, v) ==
    IF HasKey(d, k)
    THEN PyDict([i \in 1..Len(d.kv) |->
                    IF d.kv[i][1] = k THEN <<k, v>> ELSE d.kv[i]])
    ELSE PyDict(Append(d.kv, <<k, v>>))

\* d.update(e), for two dicts
RECURSIVE Update(_, _)
Update(d, e) ==
    IF e.kv = <<>> THEN d
    ELSE Update(SetItem(d, e.kv[1][1], e.kv[1][2]), PyDict(Tail(e.kv)))

\* whether `k in c` is defined: int, bool and None are not iterable (TypeError)
InDefined(c) == c.t \in {"dict", "list", "str"}

\* k in c, for a str k
In(k, c) ==
    CASE c.t = "dict" -> HasKey(c, k)
      [] c.t = "list" -> \E i \in 1..Len(c.l) : c.l[i] = PyStr(k)
      [] c.t = "str"  -> Contains(c.s, k)

\* whether v.copy() is defined: str, int, bool and None have no copy()
CopyDefined(v) == v.t \in {"dict", "list"}

\* dict.update(data): defined for a dict, and for a list of two-item lists
\* whose first item is a str (TypeError / ValueError otherwise)
UpdateDefined(data) ==
    \/ IsDict(data)
    \/ /\ IsList(data)
       /\ \A i \in 1..Len(data.l) :
            /\ IsList(data.l[i])
            /\ Len(data.l[i].l) = 2
            /\ IsStr(data.l[i].l[1])

\* the dict that dict.update(data) merges in
AsDict(data) ==
    IF IsDict(data) THEN data
    ELSE Update(EmptyDict,
                PyDict([i \in 1..Len(data.l) |->
                           <<data.l[i].l[1].s, data.l[i].l[2]>>]))

----------------------------------------------------------------------------
(* Results of the methods: a value, the records logged at WARNING or above,
   and whether an exception left the method *)

Ok(v) == [v |-> v, log |-> <<>>, raised |-> FALSE]
Logged(v, levels) == [v |-> v, log |-> levels, raised |-> FALSE]
Raised(levels) == [v |-> PyNone, log |-> levels, raised |-> TRUE]

----------------------------------------------------------------------------
(* The filesystem.  A file is [exists |-> FALSE] or a record giving whether
   open() succeeds, whether its text holds both 'sops:' and 'enc:', what
   yaml.safe_load makes of its text and what `sops --decrypt` does with it.
   ParseError stands for yaml raising. *)

ParseError == [t |-> "error"]
NoFile == [exists |-> FALSE]

SopsOut(v) == [r |-> "ok", out |-> v]    \* exit status 0, stdout parsing to v
SopsFail == [r |-> "fail"]               \* non-zero exit status
SopsTimeout == [r |-> "timeout"]         \* subprocess.TimeoutExpired
SopsOSError == [r |-> "oserror"]         \* the binary is gone since the probe

YamlFile(v) ==
    [exists |-> TRUE, readable |-> TRUE, marked |-> FALSE, yaml |-> v,
     sops |-> SopsFail]
SopsFile(outcome) ==
    [exists |-> TRUE, readable |-> TRUE, marked |-> TRUE, yaml |-> ParseError,
     sops |-> outcome]
UnreadableFile ==
    [exists |-> TRUE, readable |-> FALSE, marked |-> FALSE, yaml |-> ParseError,
     sops |-> SopsFail]

NoToml == [exists |-> FALSE]
TomlFile(lines) == [exists |-> TRUE, readable |-> TRUE, lines |-> lines]
UnreadableToml == [exists |-> TRUE, readable |-> FALSE, lines |-> <<>>]

NoDir == [kind |-> "absent"]
\* host_vars/<hostname>/
HostDir(main_yaml, main_yml, secrets) ==
    [kind |-> "dir", main_yaml |-> main_yaml, main_yml |-> main_yml,
     secrets |-> secrets]
\* host_vars/: dirs is a sequence of <<hostname, HostDir>>
HostVarsDir(dirs) == [kind |-> "dir", dirs |-> dirs]
\* group_vars/<env_name>/
GroupDir(main_yaml, main_yml) ==
    [kind |-> "dir", main_yaml |-> main_yaml, main_yml |-> main_yml]
\* environments/<env_name>/
EnvDir(toml, yaml, host_vars, group_vars) ==
    [kind |-> "dir", toml |-> toml, yaml |-> yaml, host_vars |-> host_vars,
     group_vars |-> group_vars]
NotADir == [kind |-> "file"]

\* str(environments_dir / env_name / "ansible" / "inventory" / file), relative
\* to the repository root
InventoryPath(env_name, file) == env_name \o S_slash \o file

----------------------------------------------------------------------------
(* DynamicInventory *)

\* __init__ / _check_sops_availability: the outcome of `sops --version`
\* "oserror" is an OSError other than FileNotFoundError, such as the
\* PermissionError of a `sops` on the PATH that may not be executed
ProbeOutcomes == {"ok", "nonzero", "timeout", "notfound", "oserror"}

\* the probe leaves _check_sops_availability with an exception: the except
\* clause names TimeoutExpired, FileNotFoundError and SubprocessError only
ProbeRaises(outcome) == outcome = "oserror"
\* a probe that reports SOPS present whatever happened
probe_always(outcome) == TRUE
_check_sops_availability(outcome) == outcome = "ok"

_is_sops_encrypted(file) == file.readable /\ file.marked

_decrypt_sops_file(file, avail) ==
    IF ~avail THEN Logged(PyNone, <<"WARNING">>)
    ELSE CASE file.sops.r = "fail"    -> Logged(PyNone, <<"ERROR">>)
           [] file.sops.r = "timeout" -> Logged(PyNone, <<"ERROR">>)
           [] file.sops.r = "oserror" -> Logged(PyNone, <<"ERROR">>)
           [] file.sops.r = "ok" ->
                IF file.sops.out = ParseError THEN Logged(PyNone, <<"ERROR">>)
                ELSE IF Truthy(file.sops.out) THEN Ok(file.sops.out)
                ELSE Ok(EmptyDict)

\* _load_inventory_file, once the file is known to be SOPS encrypted: d is what
\* _decrypt_sops_file returned
LoadDecrypted(d) ==
    IF d.v = PyNone THEN Logged(EmptyDict, d.log \o <<"ERROR">>)
    ELSE Logged(d.v, d.log)

\* called with the hosts.yaml path only
_load_inventory_file(file, avail) ==
    IF ~file.exists THEN Ok(EmptyDict)
    ELSE IF _is_sops_encrypted(file)
    THEN LoadDecrypted(_decrypt_sops_file(file, avail))
    ELSE IF ~file.readable \/ file.yaml = ParseError
         THEN Logged(EmptyDict, <<"ERROR">>)
         ELSE IF Truthy(file.yaml) THEN Ok(file.yaml) ELSE Ok(EmptyDict)

\* a discoverer that knows the structured format only
HasYamlOnly(d) == d.kind = "dir" /\ d.yaml.exists
\* an environment directory that holds hosts.toml or hosts.yaml
HasInventoryFile(d) == d.kind = "dir" /\ (d.toml.exists \/ d.yaml.exists)

\* the names iterdir() yields, in `order`, kept when they qualify
RECURSIVE Found(_, _)
Found(entries, order) ==
    IF order = <<>> THEN <<>>
    ELSE (IF HasInventoryFile(entries[Head(order)]) THEN <<Head(order)>> ELSE <<>>)
         \o Found(entries, Tail(order))

\* `order` is the order in which iterdir() enumerates environments/
_discover_environments(f, order) ==
    IF f.root = "missing" THEN Logged(<<>>, <<"WARNING">>)
    ELSE IF f.root = "file" THEN Raised(<<>>)
    ELSE Ok(sorted(Found(f.entries, order)))

----------------------------------------------------------------------------
(* The flat (INI-style) format: hosts.toml *)

IsSpace(ch) == ch \in {9, 10, 11, 12, 13, 32}

\* line.strip()
RECURSIVE lstrip(_)
lstrip(line) ==
    IF line # <<>> /\ IsSpace(Head(line)) THEN lstrip(Tail(line)) ELSE line
RECURSIVE rstrip(_)
rstrip(line) ==
    IF line # <<>> /\ IsSpace(line[Len(line)])
    THEN rstrip(SubSeq(line, 1, Len(line) - 1)) ELSE line
strip(line) == rstrip(lstrip(line))

\* inventory_data[group].append(line), the list created when missing
AppendHost(data, group, line) ==
    SetItem(data, group,
            PyList(Append(GetOr(data, group, EmptyList).l, PyStr(line))))

\* one iteration of the loop over the lines, for the stripped line; st is
\* [data |-> inventory_data, group |-> current_group (PyNone or a PyStr)]
IniStripped(st, line) ==
    IF line = <<>> \/ Head(line) = 35 THEN st
    ELSE IF Head(line) = 91 /\ line[Len(line)] = 93
    THEN [data |-> IF HasKey(st.data, SubSeq(line, 2, Len(line) - 1)) THEN st.data
                   ELSE SetItem(st.data, SubSeq(line, 2, Len(line) - 1), EmptyList),
          group |-> PyStr(SubSeq(line, 2, Len(line) - 1))]
    ELSE IF st.group # PyNone /\ st.group.s # <<>>
    THEN [st EXCEPT !.data = AppendHost(@, st.group.s, line)]
    ELSE [st EXCEPT !.data = AppendHost(@, S_all, line)]

IniLine(st, raw) == IniStripped(st, strip(raw))

RECURSIVE IniLines(_, _)
IniLines(st, lines) ==
    IF lines = <<>> THEN st ELSE IniLines(IniLine(st, Head(lines)), Tail(lines))

_parse_ini_style_inventory(file) ==
    IF ~file.readable THEN Logged(EmptyDict, <<"ERROR">>)
    ELSE Ok(IniLines([data |-> EmptyDict, group |-> PyNone], file.lines).data)

\* the group structure built from a dict-valued section
RECURSIVE GroupFromDict(_, _)
GroupFromDict(gs, kv) ==
    IF kv = <<>> THEN gs
    ELSE GroupFromDict(SetItem(gs, kv[1][1], kv[1][2]), Tail(kv))

\* ansible_inventory[env_name][key].extend(items)
ExtendAt(inv, env_name, key, items) ==
    SetItem(inv, env_name,
            SetItem(Lookup(inv, env_name), key,
                    PyList(Lookup(Lookup(inv, env_name), key).l \o items)))

\* group_structure
GroupStructure(group_data) ==
    IF IsList(group_data)
    THEN SetItem(PyDict(<< <<S_hosts, EmptyList>> >>), S_hosts, group_data)
    ELSE IF IsDict(group_data)
    THEN GroupFromDict(PyDict(<< <<S_hosts, EmptyList>> >>), group_data.kv)
    ELSE PyDict(<< <<S_hosts, EmptyList>> >>)

\* one iteration of the loop over toml_data.items()
ConvertGroup(inv, env_name, group_name, group_data) ==
    IF group_name = S_all
    THEN IF IsList(group_data) THEN ExtendAt(inv, env_name, S_hosts, group_data.l)
         ELSE inv
    ELSE SetItem(ExtendAt(inv, env_name, S_children, <<PyStr(group_name)>>),
                 group_name, GroupStructure(group_data))

\* ansible_inventory[env_name]["children"] is a KeyError once a section named
\* like the environment has replaced the environment group
ConvertDefined(inv, env_name, group_name) ==
    IF group_name = S_all
    THEN HasKey(Lookup(inv, env_name), S_hosts)
         /\ IsList(Lookup(Lookup(inv, env_name), S_hosts))
    ELSE HasKey(Lookup(inv, env_name), S_children)
         /\ IsList(Lookup(Lookup(inv, env_name), S_children))

RECURSIVE ConvertGroups(_, _, _)
ConvertGroups(inv, env_name, kv) ==
    IF kv = <<>> THEN Ok(inv)
    ELSE IF ~ConvertDefined(inv, env_name, kv[1][1]) THEN Raised(<<>>)
    ELSE ConvertGroups(ConvertGroup(inv, env_name, kv[1][1], kv[1][2]),
                       env_name, Tail(kv))

_convert_toml_to_ansible_format(toml_data, env_name) ==
    ConvertGroups(
        SetItem(PyDict(<< <<S_all,
                           PyDict(<< <<S_children, PyList(<<PyStr(env_name)>>)>>,
                                     <<S_vars, EmptyDict>> >>)>> >>),
                env_name,
                PyDict(<< <<S_children, EmptyList>>, <<S_hosts, EmptyList>>,
                          <<S_vars, EmptyDict>> >>)),
        env_name, toml_data.kv)

----------------------------------------------------------------------------
(* Variable files and secret bundles *)

\* host_vars.update(data), an exception being caught and logged
UpdateOrLog(acc, data) ==
    IF UpdateDefined(data) THEN [acc EXCEPT !.v = Update(@, AsDict(data))]
    ELSE [acc EXCEPT !.log = @ \o <<"ERROR">>]

\* the body of the loop over ["main.yaml", "main.yml"]: acc is [v, log, raised]
LoadMainFile(acc, file) ==
    IF ~file.exists THEN acc
    ELSE IF ~file.readable \/ file.yaml = ParseError
    THEN [acc EXCEPT !.log = @ \o <<"ERROR">>]
    ELSE UpdateOrLog(acc, IF Truthy(file.yaml) THEN file.yaml ELSE EmptyDict)

\* the entry of host_vars/ named hostname, NoDir when there is none
HostEntry(host_vars, hostname) ==
    IF host_vars.kind = "dir"
       /\ \E i \in 1..Len(host_vars.dirs) : host_vars.dirs[i][1] = hostname
    THEN host_vars.dirs[CHOOSE i \in 1..Len(host_vars.dirs) :
                            host_vars.dirs[i][1] = hostname][2]
    ELSE NoDir

\* the two files of a host_vars/<hostname>/ or group_vars/<group>/ directory
LoadMainFiles(dir) ==
    IF dir.kind = "dir"
    THEN LoadMainFile(LoadMainFile(Ok(EmptyDict), dir.main_yaml), dir.main_yml)
    ELSE Ok(EmptyDict)

_load_host_vars(envdir, hostname) ==
    LoadMainFiles(HostEntry(envdir.host_vars, hostname))

\* called with group_name = env_name only
_load_group_vars(envdir) == LoadMainFiles(envdir.group_vars)

\* secrets[hostname] = decrypted_secrets, when they are truthy; d is what
\* _decrypt_sops_file returned
KeepSecret(acc, name, d) ==
    IF Truthy(d.v) THEN [v |-> SetItem(acc.v, name, d.v), log |-> acc.log \o d.log,
                         raised |-> FALSE]
    ELSE [acc EXCEPT !.log = @ \o d.log]

\* the loop over host_vars_dir.iterdir(); the result is keyed by host name and
\* every record logged in it has the same level, so the enumeration order of
\* the host directories does not show
RECURSIVE SecretsOf(_, _, _)
SecretsOf(acc, dirs, avail) ==
    IF dirs = <<>> THEN acc
    ELSE IF dirs[1][2].kind = "dir" /\ dirs[1][2].secrets.exists
            /\ _is_sops_encrypted(dirs[1][2].secrets)
    THEN SecretsOf(KeepSecret(acc, dirs[1][1],
                              _decrypt_sops_file(dirs[1][2].secrets, avail)),
                   Tail(dirs), avail)
    ELSE SecretsOf(acc, Tail(dirs), avail)

_discover_sops_secrets(envdir, avail) ==
    IF envdir.host_vars.kind = "absent" THEN Ok(EmptyDict)
    ELSE IF envdir.host_vars.kind = "file" THEN Raised(<<>>)
    ELSE SecretsOf(Ok(EmptyDict), envdir.host_vars.dirs, avail)

----------------------------------------------------------------------------
(* _merge_inventories.  The state of the loop is
   [m |-> merged, log, raised, secrets |-> sops_secrets, hosts_count];
   once an exception is raised the remaining steps are skipped. *)

\* c[k], for a str k, is defined (no KeyError, no TypeError)
SubDefined(c, k) == IsDict(c) /\ HasKey(c, k)
Sub2Defined(m, a, b) == SubDefined(m, a) /\ SubDefined(Lookup(m, a), b)
Sub2(m, a, b) == Lookup(Lookup(m, a), b)
SetSub2(m, a, b, v) == SetItem(m, a, SetItem(Lookup(m, a), b, v))

Fail(st) == [st EXCEPT !.raised = TRUE]

\* `"all" in inventory and key in inventory["all"]`: "yes", "no" or "raise"
AllHas(inventory, key) ==
    IF ~InDefined(inventory) THEN "raise"
    ELSE IF ~In(S_all, inventory) THEN "no"
    ELSE IF ~IsDict(inventory) THEN "raise"
    ELSE IF ~InDefined(Lookup(inventory, S_all)) THEN "raise"
    ELSE IF In(key, Lookup(inventory, S_all)) THEN "yes" ELSE "no"

\* the variable name left bare
BareVarName(env_name, var_name) == var_name
\* the two names joined without a separator
JoinedVarName(env_name, var_name) == env_name \o var_name
\* f"{env_name}_{var_name}"
EnvVarName(env_name, var_name) == env_name \o S_underscore \o var_name

\* if name not in merged["all"]["children"]: merged["all"]["children"].append(name)
AppendChild(st, name) ==
    IF st.raised THEN st
    ELSE IF ~Sub2Defined(st.m, S_all, S_children) THEN Fail(st)
    ELSE LET ch == Sub2(st.m, S_all, S_children)
         IN  IF ~InDefined(ch) THEN Fail(st)
             ELSE IF In(name, ch) THEN st
             ELSE IF ~IsList(ch) THEN Fail(st)
             ELSE [st EXCEPT !.m = SetSub2(@, S_all, S_children,
                                           PyList(Append(ch.l, PyStr(name))))]

\* merged[name] = data.copy()
CopyGroup(st, name, data) ==
    IF st.raised THEN st
    ELSE IF ~CopyDefined(data) THEN Fail(st)
    ELSE [st EXCEPT !.m = SetItem(@, name, data)]

\* the loop "Copy all groups from inventory"
RECURSIVE CopyGroups(_, _)
CopyGroups(st, kv) ==
    IF kv = <<>> \/ st.raised THEN st
    ELSE IF kv[1][1] \in {S_all, S_meta} THEN CopyGroups(st, Tail(kv))
    ELSE CopyGroups(AppendChild(CopyGroup(st, kv[1][1], kv[1][2]), kv[1][1]),
                    Tail(kv))

\* the secret bundle applied first
LayerSecretFirst(entry, host_vars, env_name, secret) ==
    SetItem(Update(Update(entry, secret), host_vars), S_environment,
            PyStr(env_name))
\* the layers of one host entry in the order of the source: host_vars, then
\* the environment tag, then the secret bundle
LayerHost(entry, host_vars, env_name, secret) ==
    Update(SetItem(Update(entry, host_vars), S_environment, PyStr(env_name)),
           secret)

\* merged["_meta"]["hostvars"][h] under the three updates; hostvars is
\* merged["_meta"]["hostvars"], hv what _load_host_vars returned and secret
\* sops_secrets[h], {} when there is none
UpdateHost(st, hostvars, h, hv, env_name, secret) ==
    IF ~IsDict(hostvars) THEN Fail(st)
    ELSE IF ~IsDict(GetOr(hostvars, h, EmptyDict)) \/ ~UpdateDefined(secret)
    THEN Fail([st EXCEPT !.log = @ \o hv.log])
    ELSE [st EXCEPT !.log = @ \o hv.log,
                    !.m = SetSub2(@, S_meta, S_hostvars,
                                  SetItem(hostvars, h,
                                          LayerHost(GetOr(hostvars, h, EmptyDict),
                                                    hv.v, env_name,
                                                    AsDict(secret))))]

\* the body of "for hostname in host_list"
ProcessHost(st, envdir, env_name, hostname) ==
    IF st.raised THEN st
    ELSE IF ~IsStr(hostname) THEN Fail(st)   \* unhashable, or Path / non-str
    ELSE IF ~Sub2Defined(st.m, S_meta, S_hostvars) THEN Fail(st)
    ELSE UpdateHost(st, Sub2(st.m, S_meta, S_hostvars), hostname.s,
                    _load_host_vars(envdir, hostname.s), env_name,
                    GetOr(st.secrets, hostname.s, EmptyDict))

RECURSIVE ProcessHosts(_, _, _, _)
ProcessHosts(st, envdir, env_name, host_list) ==
    IF host_list = <<>> \/ st.raised THEN st
    ELSE ProcessHosts(ProcessHost(st, envdir, env_name, Head(host_list)),
                      envdir, env_name, Tail(host_list))

process_hosts_in_group(st, envdir, env_name, group_data) ==
    IF IsDict(group_data) /\ HasKey(group_data, S_hosts)
       /\ IsList(Lookup(group_data, S_hosts))
    THEN LET host_list == Lookup(group_data, S_hosts).l
         IN  ProcessHosts([st EXCEPT !.hosts_count = @ + Len(host_list)],
                          envdir, env_name, host_list)
    ELSE st

\* the loop "Process all groups"
RECURSIVE ProcessGroups(_, _, _, _)
ProcessGroups(st, envdir, env_name, kv) ==
    IF kv = <<>> \/ st.raised THEN st
    ELSE IF kv[1][1] \in {S_all, S_meta}
    THEN ProcessGroups(st, envdir, env_name, Tail(kv))
    ELSE ProcessGroups(process_hosts_in_group(st, envdir, env_name, kv[1][2]),
                       envdir, env_name, Tail(kv))

\* merged["_meta"]["environment_info"][env_name][field] = value
SetInfo(st, env_name, field, value) ==
    IF st.raised THEN st
    ELSE IF ~Sub2Defined(st.m, S_meta, S_environment_info) THEN Fail(st)
    ELSE LET info == Sub2(st.m, S_meta, S_environment_info)
         IN  IF ~SubDefined(info, env_name) \/ ~IsDict(Lookup(info, env_name))
             THEN Fail(st)
             ELSE [st EXCEPT !.m =
                      SetSub2(@, S_meta, S_environment_info,
                              SetItem(info, env_name,
                                      SetItem(Lookup(info, env_name), field, value)))]

\* groups_count
GroupsCount(inventory) ==
    Cardinality({i \in 1..Len(inventory.kv) :
                    inventory.kv[i][1] \notin {S_all, S_meta}})

\* the loop over items of a variable map: merged["all"]["vars"][prefixed] = value
RECURSIVE PrefixVars(_, _, _)
PrefixVars(st, env_name, kv) ==
    IF kv = <<>> \/ st.raised THEN st
    ELSE IF ~Sub2Defined(st.m, S_all, S_vars) \/ ~IsDict(Sub2(st.m, S_all, S_vars))
    THEN Fail(st)
    ELSE PrefixVars([st EXCEPT !.m =
                        SetSub2(@, S_all, S_vars,
                                SetItem(Sub2(@, S_all, S_vars),
                                        EnvVarName(env_name, kv[1][1]), kv[1][2]))],
                    env_name, Tail(kv))

\* merged[env_name] now shares its members with inventory[env_name]
Copied(st, env_name) ==
    IF st.raised THEN st ELSE [st EXCEPT !.copied = @ \cup {env_name}]

\* if env_name in inventory: merged[env_name] = inventory[env_name].copy()
\* copy() is shallow: the members of merged[env_name] are the very objects
\* of inventory[env_name]; st.copied holds the names copied this way
CopyEnvGroup(st, env_name, inventory) ==
    IF HasKey(inventory, env_name)
    THEN Copied(CopyGroup(st, env_name, Lookup(inventory, env_name)), env_name)
    ELSE st

\* hosts_count = 0
ResetHostsCount(st) == [st EXCEPT !.hosts_count = 0]

\* env_info[env_name]["hosts_count"] = hosts_count
SetHostsCount(st, env_name) ==
    SetInfo(st, env_name, S_hosts_count, PyInt(st.hosts_count))

\* the block guarded by `"all" in inventory and "children" in inventory["all"]`
MergeStructure(st, envdir, env_name, inventory) ==
    SetInfo(
        SetHostsCount(
            ProcessGroups(
                ResetHostsCount(
                    CopyGroups(CopyEnvGroup(AppendChild(st, env_name),
                                            env_name, inventory),
                               inventory.kv)),
                envdir, env_name, inventory.kv),
            env_name),
        env_name, S_groups_count, PyInt(GroupsCount(inventory)))

\* the same loop when env_vars is merged["all"]["vars"] itself (the
\* environment is named `all` and its group was copied): item i of the dict
\* as it is now is written under the prefixed name; a name that is new grows
\* the dict under its own iterator, whose next step raises RuntimeError
RECURSIVE PrefixShared(_, _, _)
PrefixShared(st, env_name, i) ==
    IF i > Len(Sub2(st.m, S_all, S_vars).kv) THEN st
    ELSE IF HasKey(Sub2(st.m, S_all, S_vars),
                   EnvVarName(env_name, Sub2(st.m, S_all, S_vars).kv[i][1]))
    THEN PrefixShared(PrefixVars(st, env_name,
                                 <<Sub2(st.m, S_all, S_vars).kv[i]>>),
                      env_name, i + 1)
    ELSE Fail(PrefixVars(st, env_name, <<Sub2(st.m, S_all, S_vars).kv[i]>>))

\* "Merge environment-specific variables"
MergeEnvVars(st, env_name, inventory) ==
    IF st.raised THEN st
    ELSE LET c == AllHas(inventory, S_vars)
         IN  IF c = "raise" THEN Fail(st)
             ELSE IF c = "no" THEN st
             ELSE IF ~SubDefined(Lookup(inventory, S_all), S_vars) THEN Fail(st)
             ELSE LET env_vars == Lookup(Lookup(inventory, S_all), S_vars)
                  IN  IF ~IsDict(env_vars) THEN Fail(st)
                      ELSE IF env_name = S_all /\ S_all \in st.copied
                      THEN PrefixShared(st, env_name, 1)
                      ELSE PrefixVars(st, env_name, env_vars.kv)

\* the loop over group_vars.items(); gv is what _load_group_vars returned
PrefixGroupVars(st, env_name, gv) ==
    PrefixVars([st EXCEPT !.log = @ \o gv.log], env_name, gv.v.kv)

\* "Load group variables from group_vars directory"
MergeGroupVars(st, envdir, env_name) ==
    IF st.raised THEN st
    ELSE PrefixGroupVars(st, env_name, _load_group_vars(envdir))

\* the inventory source recorded in environment_info
InventorySource(envdir, env_name) ==
    PyStr(InventoryPath(env_name,
                        IF envdir.toml.exists THEN S_hosts_toml ELSE S_hosts_yaml))

\* merged["_meta"]["environment_info"][env_name] = {...}
RecordInfo(st, envdir, env_name, secrets_count) ==
    [st EXCEPT !.m =
        SetSub2(@, S_meta, S_environment_info,
                SetItem(Sub2(@, S_meta, S_environment_info), env_name,
                        PyDict(<< <<S_source, InventorySource(envdir, env_name)>>,
                                  <<S_hosts_count, PyInt(0)>>,
                                  <<S_groups_count, PyInt(0)>>,
                                  <<S_sops_secrets_count,
                                    PyInt(secrets_count)>> >>)))]

\* "Merge groups and hosts"
MergeChildren(st, envdir, env_name, inventory) ==
    IF AllHas(inventory, S_children) = "raise" THEN Fail(st)
    ELSE IF AllHas(inventory, S_children) = "yes"
    THEN MergeStructure(st, envdir, env_name, inventory)
    ELSE st

\* the iteration once the secret bundles are discovered: sec is what
\* _discover_sops_secrets returned, st holds its log and its bundles
MergeDiscovered(st, envdir, env_name, inventory, sec) ==
    IF sec.raised THEN Fail(st)
    ELSE IF ~Sub2Defined(st.m, S_meta, S_environment_info)
            \/ ~IsDict(Sub2(st.m, S_meta, S_environment_info))
    THEN Fail(st)
    ELSE MergeGroupVars(
             MergeEnvVars(
                 MergeChildren(RecordInfo(st, envdir, env_name, Len(sec.v.kv)),
                               envdir, env_name, inventory),
                 env_name, inventory),
             envdir, env_name)

\* sops_secrets = self._discover_sops_secrets(env_name)
WithSecrets(st, envdir, env_name, inventory, sec) ==
    MergeDiscovered([st EXCEPT !.log = @ \o sec.log, !.secrets = sec.v],
                    envdir, env_name, inventory, sec)

\* one iteration of "for env_name, inventory in inventories.items()"
MergeEnv(st, envdir, avail, env_name, inventory) ==
    IF st.raised THEN st
    ELSE WithSecrets(st, envdir, env_name, inventory,
                     _discover_sops_secrets(envdir, avail))

\* merged, before the loop
EmptyMerged ==
    PyDict(<< <<S_meta, PyDict(<< <<S_hostvars, EmptyDict>>,
                                  <<S_environment_info, EmptyDict>> >>)>>,
              <<S_all, PyDict(<< <<S_children, EmptyList>>,
                                 <<S_vars, EmptyDict>> >>)>> >>)

\* inventories is the sequence of <<env_name, inventory>> in insertion order
RECURSIVE MergeLoop(_, _, _, _)
MergeLoop(st, f, avail, inventories) ==
    IF inventories = <<>> \/ st.raised THEN st
    ELSE MergeLoop(MergeEnv(st, f.entries[inventories[1][1]], avail,
                            inventories[1][1], inventories[1][2]),
                   f, avail, Tail(inventories))

\* return merged
Merged(st) == [v |-> st.m, log |-> st.log, raised |-> st.raised]

\* the locals of _merge_inventories before the loop
MergeStart ==
    [m |-> EmptyMerged, log |-> <<>>, raised |-> FALSE, secrets |-> EmptyDict,
     hosts_count |-> 0, copied |-> {}]

_merge_inventories(f, avail, inventories) ==
    Merged(MergeLoop(MergeStart, f, avail, inventories))

\* a mutable object: a write through one reference shows through every other
Mutable(v) == IsDict(v) \/ IsList(v)

\* a group of an input tree after the merge wrote through its shallow copy:
\* each mutable member is the object the copy holds under the same key
WrittenThrough(group, copy) ==
    PyDict([i \in 1..Len(group.kv) |->
               <<group.kv[i][1],
                 IF Mutable(group.kv[i][2]) THEN Lookup(copy, group.kv[i][1])
                 ELSE group.kv[i][2]>>])

\* the argument of _merge_inventories once the loop has ended in st: the
\* merge writes into merged["all"] and merged["_meta"] only, so a tree has
\* changed only if one of these is the copy of its own group
InputsAfter(st, inventories) ==
    [i \in 1..Len(inventories) |->
        IF /\ inventories[i][1] \in st.copied \cap {S_all, S_meta}
           /\ IsDict(Lookup(inventories[i][2], inventories[i][1]))
        THEN <<inventories[i][1],
               SetItem(inventories[i][2], inventories[i][1],
                       WrittenThrough(Lookup(inventories[i][2], inventories[i][1]),
                                      Lookup(st.m, inventories[i][1])))>>
        ELSE inventories[i]]

----------------------------------------------------------------------------
(* get_inventory *)

\* the document returned when nothing is discovered or the filter is unknown
EmptyInventory ==
    PyDict(<< <<S_all, PyDict(<< <<S_children, EmptyDict>> >>)>>,
              <<S_meta, PyDict(<< <<S_hostvars, EmptyDict>> >>)>> >>)

\* r with the records `levels` in front of its own
After(levels, r) == [r EXCEPT !.log = levels \o @]

\* raw is what _parse_ini_style_inventory returned
ConvertParsed(raw, env_name) ==
    After(raw.log, _convert_toml_to_ansible_format(raw.v, env_name))

\* "Load inventory files for each environment": the tree of one environment
LoadEnvironment(envdir, avail, env_name) ==
    IF envdir.toml.exists
    THEN ConvertParsed(_parse_ini_style_inventory(envdir.toml), env_name)
    ELSE IF envdir.yaml.exists THEN _load_inventory_file(envdir.yaml, avail)
    ELSE Logged(EmptyDict, <<"WARNING">>)

\* inventories[env_name] = inventory_data
Loaded(acc, env_name, r) ==
    [v |-> Append(acc.v, <<env_name, r.v>>), log |-> acc.log \o r.log,
     raised |-> r.raised]

\* acc is [v |-> inventories so far, log, raised]
RECURSIVE LoadAll(_, _, _, _)
LoadAll(acc, f, avail, envs) ==
    IF envs = <<>> \/ acc.raised THEN acc
    ELSE LoadAll(Loaded(acc, Head(envs),
                        LoadEnvironment(f.entries[Head(envs)], avail, Head(envs))),
                 f, avail, Tail(envs))

\* return self._merge_inventories(inventories)
MergeLoaded(f, avail, loaded) ==
    IF loaded.raised THEN Raised(loaded.log)
    ELSE After(loaded.log, _merge_inventories(f, avail, loaded.v))

\* get_inventory checking the filter and then merging every environment
InventoryUnfiltered(f, avail, environment, disc) ==
    IF disc.raised THEN Raised(disc.log)
    ELSE IF disc.v = <<>> THEN Logged(EmptyInventory, disc.log \o <<"WARNING">>)
    ELSE IF Truthy(environment)
            /\ ~\E i \in 1..Len(disc.v) : disc.v[i] = environment.s
    THEN Logged(EmptyInventory, disc.log \o <<"ERROR">>)
    ELSE MergeLoaded(f, avail, LoadAll(Logged(<<>>, disc.log), f, avail, disc.v))

\* get_inventory once the environments are discovered
InventoryOf(f, avail, environment, disc) ==
    IF disc.raised THEN Raised(disc.log)
    ELSE IF disc.v = <<>> THEN Logged(EmptyInventory, disc.log \o <<"WARNING">>)
    ELSE IF Truthy(environment)
            /\ ~\E i \in 1..Len(disc.v) : disc.v[i] = environment.s
    THEN Logged(EmptyInventory, disc.log \o <<"ERROR">>)
    ELSE MergeLoaded(f, avail,
                     LoadAll(Logged(<<>>, disc.log), f, avail,
                             IF Truthy(environment) THEN <<environment.s>>
                             ELSE disc.v))

\* environment is PyNone or a PyStr; order is the enumeration order of iterdir()
get_inventory(f, avail, order, environment) ==
    InventoryOf(f, avail, environment, _discover_environments(f, order))

\* inventory.get("_meta", {}).get("hostvars", {}).get(hostname, {})
HostVarsOf(inv, hostname) ==
    IF inv.raised THEN inv
    ELSE IF ~IsDict(GetOr(inv.v, S_meta, EmptyDict)) THEN Raised(inv.log)
    ELSE IF ~IsDict(GetOr(GetOr(inv.v, S_meta, EmptyDict), S_hostvars, EmptyDict))
    THEN Raised(inv.log)
    ELSE Logged(GetOr(GetOr(GetOr(inv.v, S_meta, EmptyDict), S_hostvars,
                            EmptyDict),
                      hostname, EmptyDict),
                inv.log)

get_host_vars(f, avail, order, hostname) ==
    HostVarsOf(get_inventory(f, avail, order, PyNone), hostname)

list_environments(f, order) == _discover_environments(f, order)

----------------------------------------------------------------------------
(* validate_inventory *)

M_host == <<72, 111, 115, 116, 32>>                          \* "Host "
M_missing ==                                    \* " missing required field: "
    <<32, 109, 105, 115, 115, 105, 110, 103, 32, 114, 101, 113, 117, 105, 114,
      101, 100, 32, 102, 105, 101, 108, 100, 58, 32>>
M_novars ==                                             \* " has no variables"
    <<32, 104, 97, 115, 32, 110, 111, 32, 118, 97, 114, 105, 97, 98, 108, 101, 115>>
M_noall ==                              \* "Missing 'all' group in inventory"
    <<77, 105, 115, 115, 105, 110, 103, 32, 39, 97, 108, 108, 39, 32, 103, 114,
      111, 117, 112, 32, 105, 110, 32, 105, 110, 118, 101, 110, 116, 111, 114, 121>>
M_empty ==                               \* "Empty or invalid inventory file"
    <<69, 109, 112, 116, 121, 32, 111, 114, 32, 105, 110, 118, 97, 108, 105, 100,
      32, 105, 110, 118, 101, 110, 116, 111, 114, 121, 32, 102, 105, 108, 101>>

required_fields == <<S_ansible_host, S_environment, S_cluster_role>>

\* [PyStr(prefix + hostname) for hostname in value.keys()]
PrefixedKeys(prefix, value) ==
    [i \in 1..Len(value.kv) |-> PyStr(prefix \o value.kv[i][1])]

\* extract_hosts_and_groups over the items kv of a dict; er is
\* [hosts, groups, warnings], three sequences of PyStr
RECURSIVE ExtractItems(_, _, _)
ExtractItems(er, kv, prefix) ==
    IF kv = <<>> THEN er
    ELSE LET key == kv[1][1]
             value == kv[1][2]
             er1 == IF key = S_hosts /\ IsDict(value)
                    THEN [er EXCEPT !.hosts = @ \o PrefixedKeys(prefix, value)]
                    ELSE IF IsDict(value)
                    THEN ExtractItems([er EXCEPT !.groups =
                                          Append(@, PyStr(prefix \o key))],
                                      value.kv, prefix \o key \o S_slash)
                    ELSE er
         IN  ExtractItems(er1, Tail(kv), prefix)

extract_hosts_and_groups(er, data) ==
    IF IsDict(data) THEN ExtractItems(er, data.kv, <<>>) ELSE er

\* a validator that reports nothing about hosts
NoHostWarnings(hostname, hostvars) == <<>>
\* the warnings for one host of a `hosts` dict
HostWarnings(hostname, hostvars) ==
    IF ~IsDict(hostvars) THEN <<PyStr(M_host \o hostname \o M_novars)>>
    ELSE LET miss(field) == IF HasKey(hostvars, field) THEN <<>>
                            ELSE <<PyStr(M_host \o hostname \o M_missing \o field)>>
         IN  miss(required_fields[1]) \o miss(required_fields[2])
             \o miss(required_fields[3])

RECURSIVE HostsWarnings(_)
HostsWarnings(kv) ==
    IF kv = <<>> THEN <<>>
    ELSE HostWarnings(kv[1][1], kv[1][2]) \o HostsWarnings(Tail(kv))

\* check_host_vars over the items kv of a dict
RECURSIVE CheckItems(_, _)
CheckItems(er, kv) ==
    IF kv = <<>> THEN er
    ELSE LET key == kv[1][1]
             value == kv[1][2]
             er1 == IF key = S_hosts /\ IsDict(value)
                    THEN [er EXCEPT !.warnings = @ \o HostsWarnings(value.kv)]
                    ELSE IF IsDict(value) THEN CheckItems(er, value.kv)
                    ELSE er
         IN  CheckItems(er1, Tail(kv))

check_host_vars(er, data) ==
    IF IsDict(data) THEN CheckItems(er, data.kv) ELSE er

\* env_results as a dict
EnvResults(valid, errors, er) ==
    PyDict(<< <<S_valid, PyBool(valid)>>, <<S_errors, PyList(errors)>>,
              <<S_warnings, PyList(er.warnings)>>, <<S_hosts, PyList(er.hosts)>>,
              <<S_groups, PyList(er.groups)>> >>)

\* the file validate_inventory loads for an environment
ValidatedFile(envdir) == envdir.yaml

\* the warnings before the walk of all.children
AllWarnings(inventory) ==
    IF In(S_all, inventory) THEN <<>> ELSE <<PyStr(M_noall)>>

\* the two walks of inventory["all"]["children"]
Walk(er, children) ==
    check_host_vars(extract_hosts_and_groups(er, children), children)

\* the body of "for env_name in environments" once the file is loaded
ValidateTree(inventory) ==
    IF ~Truthy(inventory)
    THEN Ok(EnvResults(FALSE, <<PyStr(M_empty)>>,
                       [hosts |-> <<>>, groups |-> <<>>, warnings |-> <<>>]))
    ELSE IF ~InDefined(inventory) THEN Raised(<<>>)
    ELSE IF AllHas(inventory, S_children) = "raise" THEN Raised(<<>>)
    ELSE IF AllHas(inventory, S_children) = "no"
    THEN Ok(EnvResults(TRUE, <<>>,
                       [hosts |-> <<>>, groups |-> <<>>,
                        warnings |-> AllWarnings(inventory)]))
    ELSE IF ~SubDefined(Lookup(inventory, S_all), S_children) THEN Raised(<<>>)
    ELSE Ok(EnvResults(TRUE, <<>>,
                       Walk([hosts |-> <<>>, groups |-> <<>>,
                             warnings |-> AllWarnings(inventory)],
                            Lookup(Lookup(inventory, S_all), S_children))))

\* ld is what _load_inventory_file returned
ValidateLoaded(ld) == After(ld.log, ValidateTree(ld.v))

\* the body of "for env_name in environments": [v |-> env_results, log, raised]
ValidateEnv(envdir, avail) ==
    ValidateLoaded(_load_inventory_file(ValidatedFile(envdir), avail))

\* a validator whose overall flag is that of the environment validated last
ValidatedLast(acc, env_name, r) ==
    IF r.raised THEN [acc EXCEPT !.raised = TRUE, !.log = @ \o r.log]
    ELSE [v |-> SetItem(acc.v, env_name, r.v),
          valid |-> Lookup(r.v, S_valid) = PyBool(TRUE),
          log |-> acc.log \o r.log, raised |-> FALSE]

\* results["environments"][env_name] = env_results; r is what ValidateEnv made
Validated(acc, env_name, r) ==
    IF r.raised THEN [acc EXCEPT !.raised = TRUE, !.log = @ \o r.log]
    ELSE [v |-> SetItem(acc.v, env_name, r.v),
          valid |-> acc.valid /\ Lookup(r.v, S_valid) = PyBool(TRUE),
          log |-> acc.log \o r.log, raised |-> FALSE]

\* acc is [v |-> results["environments"], valid, log, raised]
RECURSIVE ValidateAll(_, _, _, _)
ValidateAll(acc, f, avail, envs) ==
    IF envs = <<>> \/ acc.raised THEN acc
    ELSE ValidateAll(Validated(acc, Head(envs),
                               ValidateEnv(f.entries[Head(envs)], avail)),
                     f, avail, Tail(envs))

\* return results
Results(r) ==
    IF r.raised THEN Raised(r.log)
    ELSE Logged(PyDict(<< <<S_valid, PyBool(r.valid)>>, <<S_environments, r.v>>,
                          <<S_errors, EmptyList>>, <<S_warnings, EmptyList>> >>),
                r.log)

\* validate_inventory once the environments are discovered
ValidateDiscovered(f, avail, disc) ==
    IF disc.raised THEN Raised(disc.log)
    ELSE Results(ValidateAll([v |-> EmptyDict, valid |-> TRUE, log |-> disc.log,
                              raised |-> FALSE],
                             f, avail, disc.v))

validate_inventory(f, avail, order) ==
    ValidateDiscovered(f, avail, _discover_environments(f, order))

----------------------------------------------------------------------------
(* main(): args is the parsed command line, with args.env already replaced by
   $ANSIBLE_INVENTORY_ENV when --env is not given *)

NoOutput == [t |-> "nothing"]     \* nothing printed on stdout
HelpText == [t |-> "help"]        \* parser.print_help()

\* the branch of the if / elif chain that args selects
Branch(args) ==
    IF args.list_environments THEN "list_environments"
    ELSE IF args.validate THEN "validate"
    ELSE IF Truthy(args.host) THEN "host"
    ELSE IF args.list THEN "list"
    ELSE "help"

StrList(names) == PyList([i \in 1..Len(names) |-> PyStr(names[i])])

\* the call main() makes in branch b, were --host to honour --env
DispatchFiltered(b, args, f, avail, order) ==
    CASE b = "list_environments" -> list_environments(f, order)
      [] b = "validate" -> validate_inventory(f, avail, order)
      [] b = "host" ->
            HostVarsOf(get_inventory(f, avail, order, args.env), args.host.s)
      [] b = "list" -> get_inventory(f, avail, order, args.env)
      [] b = "help" -> Ok(HelpText)

\* the call main() makes in branch b
Dispatch(b, args, f, avail, order) ==
    CASE b = "list_environments" -> list_environments(f, order)
      [] b = "validate" -> validate_inventory(f, avail, order)
      [] b = "host" -> get_host_vars(f, avail, order, args.host.s)
      [] b = "list" -> get_inventory(f, avail, order, args.env)
      [] b = "help" -> Ok(HelpText)

\* what main() does with the result r of that call
Report(b, r) ==
    IF r.raised
    THEN [out |-> NoOutput, exit_code |-> 1, log |-> r.log \o <<"ERROR">>]
    ELSE CASE b = "list_environments" ->
                [out |-> PyDict(<< <<S_environments, StrList(r.v)>>,
                                   <<S_count, PyInt(Len(r.v))>> >>),
                 exit_code |-> 0, log |-> r.log]
           [] b = "validate" ->
                [out |-> r.v,
                 exit_code |-> IF Lookup(r.v, S_valid) = PyBool(TRUE) THEN 0 ELSE 1,
                 log |-> r.log]
           [] b = "help" -> [out |-> HelpText, exit_code |-> 1, log |-> <<>>]
           [] OTHER -> [out |-> r.v, exit_code |-> 0, log |-> r.log]

\* what main() prints, its exit status and what it logs
main(args, f, avail, order) ==
    Report(Branch(args), Dispatch(Branch(args), args, f, avail, order))

----------------------------------------------------------------------------
(* The inputs: names, values, inventory trees and repository trees *)

AllEnvNames == <<<<97>>, <<97, 95, 98>>, <<98>>, <<99>>>>   \* "a", "a_b", "b", "c"
EnvNames == {AllEnvNames[i] : i \in 1..NumEnvs}
AllHostNames == <<<<104, 49>>, <<104, 50>>, <<104, 51>>, <<104, 52>>>>   \* "h1" .. "h4"
Hosts == {AllHostNames[i] : i \in 1..NumHosts}
LastHost == AllHostNames[NumHosts]
N_h1 == <<104, 49>>                     \* "h1"
N_web == <<119, 101, 98>>                   \* "web"
N_db == <<100, 98>>                     \* "db"
N_k == <<107>>                       \* "k", a host variable set in every layer
N_c == <<99>>                       \* "c", an environment-level variable
N_b_c == <<98, 95, 99>>                   \* "b_c", an environment-level variable
N_unknown == <<122, 122>>                \* "zz", the name of nothing

\* a value that tells its layer and its environment apart: tag + env_name
Val(tag, env_name) == PyStr(tag \o env_name)
T_plain == <<118>>                   \* tag of a value from host_vars/<h>/main.yaml
T_yml == <<119>>                     \* tag of a value from host_vars/<h>/main.yml
T_secret == <<115>>                  \* tag of a value from a secret bundle
T_var == <<120>>                     \* tag of a value from all.vars
T_gvar == <<103>>                    \* tag of a value from group_vars
T_own == <<112>>                     \* prefix of a key only one environment sets

\* how the hosts are listed: "one" lists h1 in web; "two" lists h1 in web and
\* in db; "many" lists every host in web and the last one in db as well
HostListings == {"one", "two", "many"}
WebHosts(hl) ==
    IF hl = "many" THEN [i \in 1..NumHosts |-> PyStr(AllHostNames[i])]
    ELSE <<PyStr(N_h1)>>
DbHosts(hl) ==
    CASE hl = "one" -> <<>>
      [] hl = "two" -> <<PyStr(N_h1)>>
      [] hl = "many" -> <<PyStr(LastHost)>>

\* a hosts.yaml tree of the normalized shape
NormalTree(e, hl, env_vars) ==
    PyDict(<< <<S_all, PyDict(<< <<S_children, PyList(<<PyStr(e)>>)>>,
                                 <<S_vars, env_vars>> >>)>>,
              <<e, PyDict(<< <<S_children, PyList(<<PyStr(N_web), PyStr(N_db)>>)>>,
                             <<S_hosts, EmptyList>>,
                             <<S_vars, EmptyDict>> >>)>>,
              <<N_web, PyDict(<< <<S_hosts, PyList(WebHosts(hl))>> >>)>>,
              <<N_db, PyDict(<< <<S_hosts, PyList(DbHosts(hl))>> >>)>> >>)

\* host_vars/h1/main.yaml of environment e: the shared key k and a key of its own
PlainVars(e) ==
    PyDict(<< <<N_k, Val(T_plain, e)>>, <<T_own \o e, Val(T_plain, e)>> >>)
\* decrypted host_vars/h1/secrets.sops.yaml of environment e
SecretK(e) == PyDict(<< <<N_k, Val(T_secret, e)>> >>)
SecretEnvironment(e) == PyDict(<< <<S_environment, Val(T_secret, e)>> >>)

PlainOpts == {"none", "set"}
SecretOpts == {"none", "k", "environment"}
PlainFile(e, plain) == IF plain = "set" THEN YamlFile(PlainVars(e)) ELSE NoFile
SecretFile(e, secret) ==
    CASE secret = "none" -> NoFile
      [] secret = "k" -> SopsFile(SopsOut(SecretK(e)))
      [] secret = "environment" -> SopsFile(SopsOut(SecretEnvironment(e)))
HostVarsFor(e, plain, secret) ==
    IF plain = "none" /\ secret = "none" THEN NoDir
    ELSE HostVarsDir(<< <<N_h1, HostDir(PlainFile(e, plain), NoFile,
                                        SecretFile(e, secret))>> >>)

\* all.vars of environment e
EnvVarOpts == {"none", "c", "b_c", "both"}
EnvVars(e, ev) ==
    CASE ev = "none" -> EmptyDict
      [] ev = "c" -> PyDict(<< <<N_c, Val(T_var, e)>> >>)
      [] ev = "b_c" -> PyDict(<< <<N_b_c, Val(T_var, e)>> >>)
      [] ev = "both" -> PyDict(<< <<N_c, Val(T_var, e)>>, <<N_b_c, Val(T_var, e)>> >>)
\* group_vars/<e>/main.yaml
GroupVarOpts == {"none", "c"}
GroupVarsFor(e, gv) ==
    IF gv = "none" THEN NoDir
    ELSE GroupDir(YamlFile(PyDict(<< <<N_c, Val(T_gvar, e)>> >>)), NoFile)

NormalEnv(e, hl, plain, secret, ev, gv) ==
    EnvDir(NoToml, YamlFile(NormalTree(e, hl, EnvVars(e, ev))),
           HostVarsFor(e, plain, secret), GroupVarsFor(e, gv))

\* the environment every family keeps fixed while it varies another one
PlainEnv(e) == NormalEnv(e, "one", "set", "k", "c", "none")

Fs(entries) == [root |-> "dir", entries |-> entries]

\* the sets of environments a repository of the families below holds
Populations == {p \in SUBSET EnvNames : Cardinality(p) = NumPresent}
\* a population and the one environment of it that differs from the others
Singled == {pe \in Populations \X EnvNames : pe[2] \in pe[1]}

\* host variable files and secret bundles vary in every environment
PrecedenceOf(listings) ==
    {Fs([e \in EnvNames |->
            IF e \in p THEN NormalEnv(e, hl, c[e][1], c[e][2], "c", "none")
            ELSE NoDir]) :
        hl \in listings, p \in Populations,
        c \in [EnvNames -> PlainOpts \X SecretOpts]}
PrecedenceFs == PrecedenceOf(HostListings)

\* environment-level variables vary in every environment
VarsFs ==
    {Fs([e \in EnvNames |->
            IF e \in p THEN NormalEnv(e, "one", "set", "k", c[e], gv) ELSE NoDir]) :
        gv \in GroupVarOpts, p \in Populations, c \in [EnvNames -> EnvVarOpts]}

\* an environment whose hosts.yaml holds `content`, with h1's files as in PlainEnv
YamlEnv(e, content) == EnvDir(NoToml, content, HostVarsFor(e, "set", "k"), NoDir)
\* an environment with a normal hosts.yaml and host_vars/ as given
HostVarsEnv(e, host_vars) ==
    EnvDir(NoToml, YamlFile(NormalTree(e, "one", EnvVars(e, "c"))), host_vars, NoDir)

WebOf(hosts) == <<N_web, PyDict(<< <<S_hosts, hosts>> >>)>>
AllOf(v) == <<S_all, v>>
ChildrenOf(e) == <<S_children, PyList(<<PyStr(e)>>)>>

\* the Ansible-native nesting: all.children is a dict of groups whose hosts
\* are a dict of host name -> variables; h1 lacks two required fields
NestedTree(e) ==
    PyDict(<< AllOf(PyDict(<< <<S_children,
        PyDict(<< <<N_web, PyDict(<< <<S_hosts,
            PyDict(<< <<N_h1, PyDict(<< <<S_ansible_host, Val(T_plain, e)>> >>)>>,
                      <<LastHost, PyNone>> >>)>> >>)>> >>)>> >>)) >>)

\* contents of an environment that depart from the normalized shape
Shapes ==
    {"empty", "unparseable", "unreadable", "int", "str", "str_all", "list",
     "list_all", "no_all", "no_children", "all_none", "group_scalar",
     "group_none", "vars_list", "vars_none", "nested", "hosts_dict", "host_int",
     "sops_ok", "sops_fail", "sops_timeout", "sops_garbage", "sops_oserror",
     "host_vars_file", "secret_list", "secret_fail", "secret_unmarked",
     "secret_unlisted", "plain_bad", "plain_list", "yml_over", "gv_bad"}

ShapeEnv(e, sh) ==
    CASE sh = "empty" -> YamlEnv(e, YamlFile(PyNone))
      [] sh = "unparseable" -> YamlEnv(e, YamlFile(ParseError))
      [] sh = "unreadable" -> YamlEnv(e, UnreadableFile)
      [] sh = "int" -> YamlEnv(e, YamlFile(PyInt(5)))
      [] sh = "str" -> YamlEnv(e, YamlFile(PyStr(N_web)))
      [] sh = "str_all" -> YamlEnv(e, YamlFile(PyStr(S_all)))
      [] sh = "list" -> YamlEnv(e, YamlFile(PyList(<<PyStr(N_web)>>)))
      [] sh = "list_all" -> YamlEnv(e, YamlFile(PyList(<<PyStr(S_all)>>)))
      [] sh = "no_all" ->
            YamlEnv(e, YamlFile(PyDict(<< WebOf(PyList(<<PyStr(N_h1)>>)) >>)))
      [] sh = "no_children" ->
            YamlEnv(e, YamlFile(PyDict(<<
                AllOf(PyDict(<< <<S_vars, EnvVars(e, "c")>> >>)),
                WebOf(PyList(<<PyStr(N_h1)>>)) >>)))
      [] sh = "all_none" ->
            YamlEnv(e, YamlFile(PyDict(<< AllOf(PyNone),
                                          WebOf(PyList(<<PyStr(N_h1)>>)) >>)))
      [] sh = "group_scalar" ->
            YamlEnv(e, YamlFile(PyDict(<< AllOf(PyDict(<<ChildrenOf(e)>>)),
                                          <<N_web, PyInt(5)>> >>)))
      [] sh = "group_none" ->
            YamlEnv(e, YamlFile(PyDict(<< AllOf(PyDict(<<ChildrenOf(e)>>)),
                                          <<N_web, PyNone>> >>)))
      [] sh = "vars_list" ->
            YamlEnv(e, YamlFile(PyDict(<<
                AllOf(PyDict(<< ChildrenOf(e),
                                <<S_vars, PyList(<<PyStr(N_c)>>)>> >>)),
                WebOf(PyList(<<PyStr(N_h1)>>)) >>)))
      [] sh = "vars_none" ->
            YamlEnv(e, YamlFile(PyDict(<<
                AllOf(PyDict(<< ChildrenOf(e), <<S_vars, PyNone>> >>)),
                WebOf(PyList(<<PyStr(N_h1)>>)) >>)))
      [] sh = "nested" -> YamlEnv(e, YamlFile(NestedTree(e)))
      [] sh = "hosts_dict" ->
            YamlEnv(e, YamlFile(PyDict(<<
                AllOf(PyDict(<<ChildrenOf(e)>>)),
                WebOf(PyDict(<< <<N_h1, EmptyDict>> >>)) >>)))
      [] sh = "host_int" ->
            YamlEnv(e, YamlFile(PyDict(<<
                AllOf(PyDict(<<ChildrenOf(e)>>)),
                WebOf(PyList(<<PyInt(5)>>)) >>)))
      [] sh = "sops_ok" ->
            YamlEnv(e, SopsFile(SopsOut(NormalTree(e, "one", EnvVars(e, "c")))))
      [] sh = "sops_fail" -> YamlEnv(e, SopsFile(SopsFail))
      [] sh = "sops_timeout" -> YamlEnv(e, SopsFile(SopsTimeout))
      [] sh = "sops_garbage" -> YamlEnv(e, SopsFile(SopsOut(ParseError)))
      [] sh = "sops_oserror" -> YamlEnv(e, SopsFile(SopsOSError))
      [] sh = "host_vars_file" -> HostVarsEnv(e, NotADir)
      [] sh = "secret_list" ->
            HostVarsEnv(e, HostVarsDir(<< <<N_h1,
                HostDir(PlainFile(e, "set"), NoFile,
                        SopsFile(SopsOut(PyList(<<PyStr(N_k)>>))))>> >>))
      [] sh = "secret_fail" ->
            HostVarsEnv(e, HostVarsDir(<< <<N_h1,
                HostDir(PlainFile(e, "set"), NoFile, SopsFile(SopsFail))>> >>))
      [] sh = "secret_unmarked" ->
            HostVarsEnv(e, HostVarsDir(<< <<N_h1,
                HostDir(PlainFile(e, "set"), NoFile, YamlFile(SecretK(e)))>> >>))
      [] sh = "secret_unlisted" ->
            HostVarsEnv(e, HostVarsDir(<<
                <<N_h1, HostDir(PlainFile(e, "set"), NoFile, NoFile)>>,
                <<N_unknown, HostDir(NoFile, NoFile,
                                     SopsFile(SopsOut(SecretK(e))))>>,
                <<N_db, NotADir>> >>))
      [] sh = "plain_bad" ->
            HostVarsEnv(e, HostVarsDir(<< <<N_h1,
                HostDir(YamlFile(ParseError), UnreadableFile,
                        SecretFile(e, "k"))>> >>))
      [] sh = "plain_list" ->
            HostVarsEnv(e, HostVarsDir(<< <<N_h1,
                HostDir(YamlFile(PyList(<<PyStr(N_k)>>)),
                        YamlFile(PyList(<<PyList(<<PyStr(N_k), Val(T_yml, e)>>)>>)),
                        NoFile)>> >>))
      [] sh = "yml_over" ->
            HostVarsEnv(e, HostVarsDir(<< <<N_h1,
                HostDir(PlainFile(e, "set"),
                        YamlFile(PyDict(<< <<N_k, Val(T_yml, e)>> >>)),
                        NoFile)>> >>))
      [] sh = "gv_bad" ->
            EnvDir(NoToml, YamlFile(NormalTree(e, "one", EnvVars(e, "c"))),
                   HostVarsFor(e, "set", "k"),
                   GroupDir(YamlFile(ParseError),
                            YamlFile(PyDict(<< <<N_c, Val(T_gvar, e)>> >>))))

\* one environment departs from the normalized shape, the others are plain
ShapesFs ==
    {Fs([e \in EnvNames |->
            IF e = pe[2] THEN ShapeEnv(e, sh)
            ELSE IF e \in pe[1] THEN PlainEnv(e) ELSE NoDir]) :
        pe \in Singled, sh \in Shapes}

\* hosts.toml texts, line by line
L_web == <<91, 119, 101, 98, 93>>                     \* "[web]"
L_db == <<91, 100, 98, 93>>                       \* "[db]"
L_all == <<91, 97, 108, 108, 93>>                     \* "[all]"
L_none == <<91, 93>>                       \* "[]"
L_comment == <<35, 32, 104, 49>>                  \* "# h1"
L_padded_web == <<32, 32, 91, 119, 101, 98, 93, 32>>           \* "  [web] "
L_padded_h1 == <<32, 104, 49, 9>>                \* " h1<TAB>"
Section(e) == <<91>> \o e \o <<93>>  \* "[<e>]"

Formats ==
    {"web", "ungrouped", "comment", "all", "env_section", "no_name", "repeated",
     "unreadable", "both"}

FormatEnv(e, fm) ==
    LET T(lines) == EnvDir(TomlFile(lines), NoFile, HostVarsFor(e, "set", "k"), NoDir)
    IN  CASE fm = "web" -> T(<<L_web, N_h1, LastHost>>)
          [] fm = "ungrouped" -> T(<<N_h1, L_web, LastHost>>)
          [] fm = "comment" -> T(<<L_comment, <<>>, L_padded_web, L_padded_h1>>)
          [] fm = "all" -> T(<<L_all, N_h1, L_web, LastHost>>)
          [] fm = "env_section" -> T(<<Section(e), N_h1, L_web, LastHost>>)
          [] fm = "no_name" -> T(<<L_none, N_h1>>)
          [] fm = "repeated" -> T(<<L_web, N_h1, L_db, N_h1, L_web, LastHost>>)
          [] fm = "unreadable" ->
                EnvDir(UnreadableToml, NoFile, HostVarsFor(e, "set", "k"), NoDir)
          [] fm = "both" ->
                EnvDir(TomlFile(<<L_db, LastHost>>),
                       YamlFile(NormalTree(e, "one", EnvVars(e, "c"))),
                       HostVarsFor(e, "set", "k"), NoDir)

\* one environment is in the flat format, the others are plain
FormatFs ==
    {Fs([e \in EnvNames |->
            IF e = pe[2] THEN FormatEnv(e, fm)
            ELSE IF e \in pe[1] THEN PlainEnv(e) ELSE NoDir]) :
        pe \in Singled, fm \in Formats}

\* what environments/<e> is
Kinds == {"absent", "file", "no_inventory", "yaml", "toml", "both"}
KindEnv(e, kind) ==
    CASE kind = "absent" -> NoDir
      [] kind = "file" -> NotADir
      [] kind = "no_inventory" ->
            EnvDir(NoToml, NoFile, HostVarsFor(e, "set", "k"), NoDir)
      [] kind = "yaml" -> PlainEnv(e)
      [] kind = "toml" -> FormatEnv(e, "web")
      [] kind = "both" -> FormatEnv(e, "both")

\* the entries of environments/ vary, and environments/ itself
DiscoveryFs ==
    {Fs([e \in EnvNames |-> KindEnv(e, c[e])]) : c \in [EnvNames -> Kinds]}
    \cup {[root |-> r, entries |-> [e \in EnvNames |-> NoDir]] :
            r \in {"missing", "file"}}

\* repositories whose result depends on whether SOPS is available
SopsFs == PrecedenceOf({"one"}) \cup ShapesFs
AllFs == PrecedenceFs \cup VarsFs \cup ShapesFs \cup FormatFs \cup DiscoveryFs

\* the orders in which iterdir() may enumerate environments/
Present(f) == {e \in EnvNames : f.entries[e].kind # "absent"}
Orders(f) ==
    LET P == Present(f)
    IN  {o \in [1..Cardinality(P) -> P] : \A i, j \in DOMAIN o : i # j => o[i] # o[j]}

\* the command lines
NoArgs ==
    [list_environments |-> FALSE, validate |-> FALSE, host |-> PyNone,
     list |-> FALSE, env |-> PyNone]
EnvArgs == {PyNone, PyStr(<<>>), PyStr(N_unknown)} \cup {PyStr(e) : e \in EnvNames}
HostArgs == {PyStr(h) : h \in Hosts \cup {N_unknown}}
Args ==
    {NoArgs, [NoArgs EXCEPT !.list_environments = TRUE],
     [NoArgs EXCEPT !.validate = TRUE],
     [NoArgs EXCEPT !.validate = TRUE, !.list = TRUE],
     [NoArgs EXCEPT !.host = PyStr(<<>>), !.list = TRUE]}
    \cup {[NoArgs EXCEPT !.list = TRUE, !.env = e] : e \in EnvArgs}
    \cup {[NoArgs EXCEPT !.host = h] : h \in HostArgs}
    \cup {[NoArgs EXCEPT !.host = PyStr(N_h1), !.env = e, !.list = l] :
            e \in {PyStr(N_unknown), PyStr(AllEnvNames[1])}, l \in BOOLEAN}

----------------------------------------------------------------------------
(* The state machine: one process.  Init is the state after
   DynamicInventory.__init__ over a given repository; the single step is the
   branch of main() that the command line selects, after which the process
   has exited.  When the probe of __init__ raises, nothing catches it (the
   constructor is called before the try block of main()): the process has
   ended with status 1 before any branch runs, pc = "crashed", and
   sops_available, which was never assigned, is left FALSE. *)

Init ==
    /\ \E o \in ProbeOutcomes :
          IF ProbeRaises(o)
          THEN /\ sops_available = FALSE
               /\ pc = "crashed"
               /\ exit_code = 1
          ELSE /\ sops_available = _check_sops_availability(o)
               /\ pc = "start"
               /\ exit_code = 0
    /\ fs \in (IF sops_available THEN AllFs ELSE SopsFs)
    /\ cmd = NoArgs
    /\ listing = <<>>
    /\ out = NoOutput
    /\ log = <<>>
    /\ ansible_vars = EmptyDict
    /\ tf_vars = PyNone
    /\ merge_input = <<>>

\* one run of main() under args, with iterdir() enumerating in `order`
Exit(args, order, r) ==
    /\ pc' = "exited"
    /\ cmd' = args
    /\ listing' = order
    /\ out' = r.out
    /\ exit_code' = r.exit_code
    /\ log' = r.log
    /\ UNCHANGED <<fs, sops_available, ansible_vars, tf_vars, merge_input>>

Run(args, order) == Exit(args, order, main(args, fs, sops_available, order))

\* the command lines that select branch b
BranchArgs(b) == {args \in Args : Branch(args) = b}

\* --list-environments
ListEnvironments ==
    /\ pc = "start"
    /\ \E args \in BranchArgs("list_environments"), order \in Orders(fs) :
            Run(args, order)

\* --validate
Validate ==
    /\ pc = "start"
    /\ \E args \in BranchArgs("validate"), order \in Orders(fs) : Run(args, order)

\* --host <hostname>
HostQuery ==
    /\ pc = "start"
    /\ \E args \in BranchArgs("host"), order \in Orders(fs) : Run(args, order)

\* --list
List ==
    /\ pc = "start"
    /\ \E args \in BranchArgs("list"), order \in Orders(fs) : Run(args, order)

\* no action flag: the help text
Help ==
    /\ pc = "start"
    /\ \E args \in BranchArgs("help"), order \in Orders(fs) : Run(args, order)

Next == ListEnvironments \/ Validate \/ HostQuery \/ List \/ Help

Spec == Init /\ [][Next]_vars

----------------------------------------------------------------------------
(* What a finished run is compared with: the repository as the run's methods
   read it *)

Exited == pc = "exited"

\* what _discover_environments returned in the run
Discovered == _discover_environments(fs, listing)

\* the run is a --list that printed a merged document
MergedRun ==
    /\ Exited
    /\ Branch(cmd) = "list"
    /\ exit_code = 0
    /\ out # EmptyInventory

\* the environments the run merged, in processing order
MergedNames == IF Truthy(cmd.env) THEN <<cmd.env.s>> ELSE Discovered.v

\* the tree the run loaded for environment e
Tree(e) == LoadEnvironment(fs.entries[e], sops_available, e).v

\* the secret bundle the run decrypted for host h in environment e, {} if none
Bundle(e, h) ==
    LET b == GetOr(_discover_sops_secrets(fs.entries[e], sops_available).v, h,
                   EmptyDict)
    IN  IF UpdateDefined(b) THEN AsDict(b) ELSE EmptyDict

\* the contents of the host_vars files of host h in environment e
Plain(e, h) == _load_host_vars(fs.entries[e], h).v

\* the groups of e's tree whose `hosts` list names h, by position in the tree
Listing(e, h) ==
    IF ~IsDict(Tree(e)) THEN {}
    ELSE {i \in 1..Len(Tree(e).kv) :
            /\ Tree(e).kv[i][1] \notin {S_all, S_meta}
            /\ IsDict(Tree(e).kv[i][2])
            /\ HasKey(Tree(e).kv[i][2], S_hosts)
            /\ IsList(Lookup(Tree(e).kv[i][2], S_hosts))
            /\ \E j \in 1..Len(Lookup(Tree(e).kv[i][2], S_hosts).l) :
                  Lookup(Tree(e).kv[i][2], S_hosts).l[j] = PyStr(h)}

\* h is in the `hosts` list of a group of e's tree
Lists(e, h) == Listing(e, h) # {}

\* the merge of e processes h: the block guarded by all.children runs
Processes(e, h) == Lists(e, h) /\ AllHas(Tree(e), S_children) = "yes"

\* the merge of e writes key k of h's entry
Sets(e, h, k) ==
    /\ Processes(e, h)
    /\ k = S_environment \/ HasKey(Plain(e, h), k) \/ HasKey(Bundle(e, h), k)

\* _meta.hostvars of the printed document
HostvarsOut == Sub2(out, S_meta, S_hostvars)

\* key k of h's printed entry holds v
Holds(h, k, v) ==
    /\ HasKey(HostvarsOut, h)
    /\ HasKey(Lookup(HostvarsOut, h), k)
    /\ Lookup(Lookup(HostvarsOut, h), k) = v

----------------------------------------------------------------------------
(* C1 *)

\* C1 as stated: whenever a key of a host's secret bundle collides with a key
\* of the host's plain host variables, of whichever merged environments, the
\* printed entry holds the value of a secret bundle under that key
C1_SecretsAlwaysWin ==
    MergedRun =>
        \A h \in Hosts, i, j \in 1..Len(MergedNames) :
            (Processes(MergedNames[i], h) /\ Processes(MergedNames[j], h)) =>
                \A n \in 1..Len(Bundle(MergedNames[i], h).kv) :
                    HasKey(Plain(MergedNames[j], h),
                           Bundle(MergedNames[i], h).kv[n][1]) =>
                        \E m \in 1..Len(MergedNames) :
                            /\ Processes(MergedNames[m], h)
                            /\ HasKey(Bundle(MergedNames[m], h),
                                      Bundle(MergedNames[i], h).kv[n][1])
                            /\ Holds(h, Bundle(MergedNames[i], h).kv[n][1],
                                     Lookup(Bundle(MergedNames[m], h),
                                            Bundle(MergedNames[i], h).kv[n][1]))

\* C1: a key of the secret bundle that environment e holds for host h has the
\* secret's value in the printed _meta.hostvars entry of h, whatever e's own
\* host_vars files and the earlier environments hold, provided no environment
\* merged after e writes that key for h
C1_SecretWinsUnlessSetLater ==
    MergedRun =>
        \A h \in Hosts, i \in 1..Len(MergedNames) :
            Processes(MergedNames[i], h) =>
                \A n \in 1..Len(Bundle(MergedNames[i], h).kv) :
                    (\A j \in (i + 1)..Len(MergedNames) :
                        ~Sets(MergedNames[j], h, Bundle(MergedNames[i], h).kv[n][1]))
                    => Holds(h, Bundle(MergedNames[i], h).kv[n][1],
                             Bundle(MergedNames[i], h).kv[n][2])

\* two environments list a host in several groups and both hold plain value
\* and secret value for the same key; the printed entry holds the later secret
C1_Witness ==
    /\ MergedRun
    /\ Len(MergedNames) = 2
    /\ \E h \in Hosts :
          /\ \A i \in 1..2 :
                /\ Processes(MergedNames[i], h)
                /\ HasKey(Plain(MergedNames[i], h), N_k)
                /\ HasKey(Bundle(MergedNames[i], h), N_k)
                /\ Cardinality(Listing(MergedNames[i], h)) > 1
          /\ Holds(h, N_k, Lookup(Bundle(MergedNames[2], h), N_k))
          /\ Lookup(Bundle(MergedNames[2], h), N_k)
                # Lookup(Plain(MergedNames[2], h), N_k)
          /\ Lookup(Bundle(MergedNames[2], h), N_k)
                # Lookup(Bundle(MergedNames[1], h), N_k)

----------------------------------------------------------------------------
(* C2 *)

\* what the merge of e alone writes for h: the host_vars files under the bundle
Layered(e, h) == Update(Plain(e, h), Bundle(e, h))

\* C2 as stated: the environments are merged in sorted order, and a host that
\* a hosts list of environment A and a hosts list of a later environment B
\* name ends with the values B gives it and with B's name as its environment
C2_LaterEnvironmentWins ==
    MergedRun =>
        /\ \A i, j \in 1..Len(MergedNames) :
              i < j => StrLess(MergedNames[i], MergedNames[j])
        /\ \A h \in Hosts, i, j \in 1..Len(MergedNames) :
              (/\ i < j
               /\ Lists(MergedNames[i], h)
               /\ Lists(MergedNames[j], h)
               /\ \A m \in (j + 1)..Len(MergedNames) : ~Lists(MergedNames[m], h))
              => /\ Holds(h, S_environment, PyStr(MergedNames[j]))
                 /\ \A n \in 1..Len(Layered(MergedNames[j], h).kv) :
                       Layered(MergedNames[j], h).kv[n][1] # S_environment =>
                           Holds(h, Layered(MergedNames[j], h).kv[n][1],
                                 Layered(MergedNames[j], h).kv[n][2])

----------------------------------------------------------------------------
(* C3 *)

\* the run is a --list whose filter names no discovered environment
UnknownFilter ==
    /\ Exited
    /\ Branch(cmd) = "list"
    /\ Truthy(cmd.env)
    /\ ~Discovered.raised
    /\ \A i \in 1..Len(Discovered.v) : Discovered.v[i] # cmd.env.s

\* a document with `all` holding empty children and `_meta` holding empty
\* hostvars, and nothing else
EmptyShaped(doc) ==
    /\ IsDict(doc)
    /\ Len(doc.kv) = 2
    /\ Sub2Defined(doc, S_all, S_children)
    /\ ~Truthy(Sub2(doc, S_all, S_children))
    /\ Sub2Defined(doc, S_meta, S_hostvars)
    /\ Sub2(doc, S_meta, S_hostvars) = EmptyDict

\* C3 as stated: a filter that names no discovered environment prints the
\* empty inventory and the process exits with a non-zero status
C3_UnknownFilterExitsNonZero ==
    UnknownFilter => EmptyShaped(out) /\ exit_code # 0

----------------------------------------------------------------------------
(* C4 *)

\* the run is a --list that discovered no environment
NothingDiscovered ==
    /\ Exited
    /\ Branch(cmd) = "list"
    /\ ~Discovered.raised
    /\ Discovered.v = <<>>

\* C4 as stated: with no environment discovered the document is
\* {all: {children: []}, _meta: {hostvars: {}}}, all.children being a list
C4_EmptyMergeHasListChildren ==
    NothingDiscovered =>
        /\ EmptyShaped(out)
        /\ Sub2(out, S_all, S_children) = EmptyList

----------------------------------------------------------------------------
(* C5 *)

\* the run is a --validate that printed its report
Reported == Exited /\ Branch(cmd) = "validate" /\ IsDict(out)

\* the inventory source of environment e, the flat file when there is one, is
\* empty or cannot be read or parsed
SourceEmpty(e) ==
    IF fs.entries[e].toml.exists
    THEN ~Truthy(_parse_ini_style_inventory(fs.entries[e].toml).v)
    ELSE ~Truthy(_load_inventory_file(fs.entries[e].yaml, sops_available).v)

\* the `valid` flag of e's entry in the report
ValidOf(e) == Lookup(Lookup(Lookup(out, S_environments), e), S_valid)

\* C5 as stated: an environment is reported invalid only when its inventory
\* source, in whichever format, is empty or unparseable, and the overall flag
\* is true when no environment is in that case
C5_InvalidOnlyWhenSourceEmpty ==
    Reported =>
        /\ \A i \in 1..Len(Discovered.v) :
              /\ HasKey(Lookup(out, S_environments), Discovered.v[i])
              /\ ValidOf(Discovered.v[i]) = PyBool(FALSE)
                    => SourceEmpty(Discovered.v[i])
        /\ (\A i \in 1..Len(Discovered.v) : ~SourceEmpty(Discovered.v[i]))
              => Lookup(out, S_valid) = PyBool(TRUE)

----------------------------------------------------------------------------
(* C6, C7 *)

\* all.vars of e's tree as "Merge environment-specific variables" reads it
AllVars(e) ==
    IF IsDict(Tree(e)) /\ AllHas(Tree(e), S_vars) = "yes"
       /\ IsDict(Lookup(Lookup(Tree(e), S_all), S_vars))
    THEN Lookup(Lookup(Tree(e), S_all), S_vars)
    ELSE EmptyDict

\* the contents of group_vars/<e>/ of environment e
GroupVars(e) == _load_group_vars(fs.entries[e]).v

\* the environment-level variables of the merged environments: <<e, x>>
EnvVarPairs ==
    UNION {{<<MergedNames[i], AllVars(MergedNames[i]).kv[n][1]>> :
                n \in 1..Len(AllVars(MergedNames[i]).kv)} :
            i \in 1..Len(MergedNames)}

\* the key the specification gives variable x of environment e: "<e>_<x>"
Prefixed(e, x) == e \o <<95>> \o x

\* all.vars of the printed document
VarsOut == Sub2(out, S_all, S_vars)

\* s starts with t
StartsWith(s, t) == Len(t) <= Len(s) /\ SubSeq(s, 1, Len(t)) = t

\* no environment name is the other one followed by "_" and more
Separate(e1, e2) ==
    ~StartsWith(e1, e2 \o <<95>>) /\ ~StartsWith(e2, e1 \o <<95>>)

\* C6 as stated: any two distinct (environment, variable) pairs of the merged
\* environments' all.vars occupy distinct keys of the printed all.vars
C6_NoCollision ==
    MergedRun =>
        \A p, q \in EnvVarPairs :
            p # q =>
                /\ Prefixed(p[1], p[2]) # Prefixed(q[1], q[2])
                /\ HasKey(VarsOut, Prefixed(p[1], p[2]))
                /\ HasKey(VarsOut, Prefixed(q[1], q[2]))

\* C6: two distinct (environment, variable) pairs of the merged environments'
\* all.vars occupy distinct keys of the printed all.vars when they are of one
\* environment, or of two environments neither of whose names is the other's
\* name followed by "_"
C6_DistinctKeysWhenSeparate ==
    MergedRun =>
        \A p, q \in EnvVarPairs :
            (p # q /\ (p[1] = q[1] \/ Separate(p[1], q[1]))) =>
                /\ Prefixed(p[1], p[2]) # Prefixed(q[1], q[2])
                /\ HasKey(VarsOut, Prefixed(p[1], p[2]))
                /\ HasKey(VarsOut, Prefixed(q[1], q[2]))

\* two environments set a variable of the same name to different values, and
\* both values are printed, each under its own key
C6_Witness ==
    /\ MergedRun
    /\ \E p, q \in EnvVarPairs :
          /\ p[1] # q[1]
          /\ p[2] = q[2]
          /\ Separate(p[1], q[1])
          /\ HasKey(VarsOut, Prefixed(p[1], p[2]))
          /\ HasKey(VarsOut, Prefixed(q[1], q[2]))
          /\ Lookup(VarsOut, Prefixed(p[1], p[2])) = Lookup(AllVars(p[1]), p[2])
          /\ Lookup(VarsOut, Prefixed(q[1], q[2])) = Lookup(AllVars(q[1]), q[2])
          /\ Lookup(AllVars(p[1]), p[2]) # Lookup(AllVars(q[1]), q[2])

\* the writes to the merged all.vars in the order of the merge: environment
\* number i writes its all.vars at 2i - 1 and its group_vars at 2i
VarWrites ==
    UNION {{[pos |-> 2 * i - 1,
             key |-> Prefixed(MergedNames[i], AllVars(MergedNames[i]).kv[n][1]),
             val |-> AllVars(MergedNames[i]).kv[n][2]] :
                n \in 1..Len(AllVars(MergedNames[i]).kv)}
           \cup {[pos |-> 2 * i,
                  key |-> Prefixed(MergedNames[i], GroupVars(MergedNames[i]).kv[n][1]),
                  val |-> GroupVars(MergedNames[i]).kv[n][2]] :
                    n \in 1..Len(GroupVars(MergedNames[i]).kv)} :
            i \in 1..Len(MergedNames)}

\* C7: every variable x of all.vars of a merged environment e is printed
\* under the key e_x; every key of the printed all.vars is e_x for a variable
\* x that all.vars or group_vars of a merged environment e sets, so no bare
\* name gets in, and it holds the value written last under that key
C7_PrefixedKeysOnly ==
    MergedRun =>
        /\ \A p \in EnvVarPairs : HasKey(VarsOut, Prefixed(p[1], p[2]))
        /\ \A n \in 1..Len(VarsOut.kv) :
              \E w \in VarWrites : w.key = VarsOut.kv[n][1]
        /\ \A w \in VarWrites :
              (\A u \in VarWrites : u.key = w.key => u.pos <= w.pos)
                  => Lookup(VarsOut, w.key) = w.val

\* two merged environments set the same variable; each value is printed under
\* the prefixed key and the bare name is no key of the printed all.vars
C7_Witness ==
    /\ MergedRun
    /\ Len(MergedNames) = 2
    /\ \A i \in 1..2 :
          /\ HasKey(AllVars(MergedNames[i]), N_c)
          /\ HasKey(VarsOut, Prefixed(MergedNames[i], N_c))
          /\ Lookup(VarsOut, Prefixed(MergedNames[i], N_c))
                = Lookup(AllVars(MergedNames[i]), N_c)
    /\ ~HasKey(VarsOut, N_c)

----------------------------------------------------------------------------
(* C8 *)

\* the run is a --list of every environment, and some were discovered
ListAll ==
    /\ Exited
    /\ Branch(cmd) = "list"
    /\ ~Truthy(cmd.env)
    /\ ~Discovered.raised
    /\ Discovered.v # <<>>

\* host_vars/ of e is a directory or absent, and every secret bundle in it
\* decrypts to a map
SoundSecrets(e) ==
    /\ fs.entries[e].host_vars.kind # "file"
    /\ \A n \in 1..Len(_discover_sops_secrets(fs.entries[e], sops_available).v.kv) :
          IsDict(_discover_sops_secrets(fs.entries[e], sops_available).v.kv[n][2])

\* C8 as stated: whatever the inventory files of the environments hold, a
\* --list of every environment ends without raising, and the hosts of every
\* environment whose groups are merged are in the printed _meta.hostvars
C8_MalformedNeverAborts ==
    (ListAll /\ \A i \in 1..Len(Discovered.v) : SoundSecrets(Discovered.v[i])) =>
        /\ exit_code = 0
        /\ \A h \in Hosts, i \in 1..Len(Discovered.v) :
              Processes(Discovered.v[i], h) => HasKey(HostvarsOut, h)

----------------------------------------------------------------------------
(* C9 *)

\* C9: what a --list or a --list-environments run prints, its exit status
\* and what it logs are the same under every order in which iterdir() may
\* enumerate environments/ over the same repository
C9_OrderIndependent ==
    (Exited /\ Branch(cmd) \in {"list", "list_environments"}) =>
        \A order \in Orders(fs) :
            main(cmd, fs, sops_available, order)
                = [out |-> out, exit_code |-> exit_code, log |-> log]

\* a --list merged two environments that iterdir() enumerated in descending
\* order, and another enumeration order exists
C9_Witness ==
    /\ MergedRun
    /\ Len(MergedNames) = 2
    /\ Len(listing) = 2
    /\ StrLess(listing[2], listing[1])
    /\ MergedNames = <<listing[2], listing[1]>>
    /\ Cardinality(Orders(fs)) > 1

----------------------------------------------------------------------------
(* C10 *)

\* environments/<e> is a directory holding hosts.toml or hosts.yaml
Qualifies(e) ==
    /\ fs.root = "dir"
    /\ fs.entries[e].kind = "dir"
    /\ fs.entries[e].toml.exists \/ fs.entries[e].yaml.exists

\* the names a --list-environments run printed
EnvsOut == Lookup(out, S_environments).l

\* C10: over an environments root that is a directory or missing,
\* --list-environments prints exactly the names of the subdirectories that
\* hold hosts.toml or hosts.yaml, in strictly ascending order, with their
\* count, and exits with status 0; a missing root gives the empty list
C10_DiscoveryExactAndSorted ==
    (Exited /\ Branch(cmd) = "list_environments" /\ fs.root # "file") =>
        /\ exit_code = 0
        /\ IsDict(out)
        /\ {EnvsOut[i] : i \in 1..Len(EnvsOut)}
              = {PyStr(e) : e \in {n \in EnvNames : Qualifies(n)}}
        /\ \A i, j \in 1..Len(EnvsOut) :
              i < j => StrLess(EnvsOut[i].s, EnvsOut[j].s)
        /\ Lookup(out, S_count) = PyInt(Len(EnvsOut))

\* iterdir() enumerated three entries in descending order; one holds only
\* hosts.toml, one only hosts.yaml and one no inventory file, and the two
\* that qualify are printed
C10_Witness ==
    /\ Exited
    /\ Branch(cmd) = "list_environments"
    /\ fs.root = "dir"
    /\ Len(listing) = 3
    /\ StrLess(listing[3], listing[2])
    /\ StrLess(listing[2], listing[1])
    /\ \E e \in EnvNames : Qualifies(e) /\ ~fs.entries[e].yaml.exists
    /\ \E e \in EnvNames : Qualifies(e) /\ ~fs.entries[e].toml.exists
    /\ \E e \in EnvNames : fs.entries[e].kind = "dir" /\ ~Qualifies(e)
    /\ Len(EnvsOut) = 2

\* the environments root is missing and the run printed the empty list
C10_MissingRoot ==
    /\ Exited
    /\ Branch(cmd) = "list_environments"
    /\ fs.root = "missing"
    /\ EnvsOut = <<>>
    /\ exit_code = 0

----------------------------------------------------------------------------
(* C11 *)

\* the run is a --list of the single environment e, whose hosts.toml can be
\* read
FlatRun(e) ==
    /\ Exited
    /\ Branch(cmd) = "list"
    /\ cmd.env = PyStr(e)
    /\ fs.root = "dir"
    /\ fs.entries[e].kind = "dir"
    /\ fs.entries[e].toml.exists
    /\ fs.entries[e].toml.readable

\* the lines of e's hosts.toml without their surrounding white space
FlatLines(e) ==
    [i \in 1..Len(fs.entries[e].toml.lines) |-> strip(fs.entries[e].toml.lines[i])]

\* a bracketed section header, and the name in it
IsHeader(l) == l # <<>> /\ Head(l) = 91 /\ l[Len(l)] = 93
HeaderName(l) == SubSeq(l, 2, Len(l) - 1)

\* a line that is neither empty, nor a comment, nor a header
IsHostLine(l) == l # <<>> /\ Head(l) # 35 /\ ~IsHeader(l)

\* line n of ls stands in section s: the last header before it names s
InSection(ls, n, s) ==
    \E j \in 1..(n - 1) :
        /\ IsHeader(ls[j])
        /\ HeaderName(ls[j]) = s
        /\ \A k \in (j + 1)..(n - 1) : ~IsHeader(ls[k])

\* the host lines of section s among the first n lines of ls, in file order
RECURSIVE HostLinesOf(_, _, _)
HostLinesOf(ls, s, n) ==
    IF n = 0 THEN <<>>
    ELSE HostLinesOf(ls, s, n - 1)
         \o (IF IsHostLine(ls[n]) /\ InSection(ls, n, s) THEN <<PyStr(ls[n])>>
             ELSE <<>>)

\* the names of the bracketed sections of e's hosts.toml, `all` apart
SectionNames(e) ==
    {HeaderName(FlatLines(e)[i]) : i \in {j \in 1..Len(FlatLines(e)) :
                                            IsHeader(FlatLines(e)[j])}} \ {S_all}

\* section s of e's hosts.toml is printed as the group {hosts: <its host
\* lines>} and is a child of the environment group
SectionIsGroup(e, s) ==
    /\ HasKey(out, s)
    /\ Lookup(out, s)
          = PyDict(<< <<S_hosts,
                        PyList(HostLinesOf(FlatLines(e), s, Len(FlatLines(e))))>> >>)
    /\ HasKey(out, e)
    /\ IsDict(Lookup(out, e))
    /\ HasKey(Lookup(out, e), S_children)
    /\ In(s, Lookup(Lookup(out, e), S_children))

\* C11 as stated: a --list of one flat-format environment prints every
\* bracketed section other than `all` as a group holding that section's host
\* lines in file order and no variables, registered as a child of the
\* environment group, and the root `all` gets no `hosts`
C11_SectionsBecomeGroups ==
    \A e \in EnvNames :
        FlatRun(e) =>
            /\ exit_code = 0
            /\ IsDict(out)
            /\ \A s \in SectionNames(e) : SectionIsGroup(e, s)
            /\ ~HasKey(Lookup(out, S_all), S_hosts)

----------------------------------------------------------------------------
(* C12 *)

\* the per-environment entries of the printed validation report
EnvReports == Lookup(out, S_environments)

\* the per-environment entry number n says valid
SaysValid(n) == Lookup(EnvReports.kv[n][2], S_valid) = PyBool(TRUE)

\* C12: the `valid` flag of a printed validation report is the conjunction of
\* the `valid` flags of its per-environment entries (true when there is none),
\* and every discovered environment has exactly one entry, no other name has
C12_ValidIsConjunction ==
    Reported =>
        /\ Lookup(out, S_valid) = PyBool(\A n \in 1..Len(EnvReports.kv) : SaysValid(n))
        /\ \A i \in 1..Len(Discovered.v) :
              Cardinality({n \in 1..Len(EnvReports.kv) :
                              EnvReports.kv[n][1] = Discovered.v[i]}) = 1
        /\ Len(EnvReports.kv) = Len(Discovered.v)

\* a report of two environments, the first invalid and the second valid, whose
\* overall flag is false
C12_Witness ==
    /\ Reported
    /\ Len(EnvReports.kv) = 2
    /\ ~SaysValid(1)
    /\ SaysValid(2)
    /\ Lookup(out, S_valid) = PyBool(FALSE)
    /\ exit_code = 1

\* nothing is discovered and the report is valid
C12_EmptyReport ==
    /\ Reported
    /\ Discovered.v = <<>>
    /\ Lookup(out, S_valid) = PyBool(TRUE)

----------------------------------------------------------------------------
(* C13 *)

\* the files of the repository that _is_sops_encrypted takes for encrypted:
\* inventory files and secret bundles
EncryptedFiles ==
    {x \in UNION {{fs.entries[e].yaml}
                  \cup (IF fs.entries[e].host_vars.kind = "dir"
                        THEN {fs.entries[e].host_vars.dirs[i][2].secrets :
                                i \in {j \in 1..Len(fs.entries[e].host_vars.dirs) :
                                        fs.entries[e].host_vars.dirs[j][2].kind = "dir"}}
                        ELSE {}) :
                  e \in {n \in EnvNames : fs.entries[n].kind = "dir"}} :
        x.exists /\ x.readable /\ x.marked}

\* the tool is present, exits with status 0 and prints text that parses
DecryptSucceeds(x) ==
    sops_available /\ x.sops.r = "ok" /\ x.sops.out # ParseError

\* d is what decrypt may return for x: no exception; data and no log record
\* when the run of the tool succeeds; None and a record at WARNING or above
\* otherwise
DecryptContained(x, d) ==
    /\ ~d.raised
    /\ IF DecryptSucceeds(x) THEN d.v # PyNone /\ d.log = <<>>
       ELSE d.v = PyNone /\ d.log # <<>>

\* C13 as stated: construction succeeds whatever way the availability probe
\* fails, and decrypt returns data or None with a log record, never raising
C13_ResolverFailuresContained ==
    /\ pc # "crashed"
    /\ \A x \in EncryptedFiles :
          DecryptContained(x, _decrypt_sops_file(x, sops_available))

----------------------------------------------------------------------------
(* C14 *)

\* the run is a --host query over an environments root that is a directory
\* or missing
HostRun == Exited /\ Branch(cmd) = "host" /\ fs.root # "file"

\* the merged inventory over all environments of the repository
MergedAll == get_inventory(fs, sops_available, listing, PyNone)

\* _meta.hostvars of a merged inventory document
HostvarsIn(doc) == Lookup(Lookup(doc, S_meta), S_hostvars)

\* C14 as stated: a --host h query never fails; it prints the _meta.hostvars
\* entry of h in the merged inventory over all environments when there is
\* one, and the empty map otherwise
C14_HostVarsOrEmpty ==
    HostRun =>
        /\ exit_code = 0
        /\ ~MergedAll.raised
        /\ out = IF HasKey(HostvarsIn(MergedAll.v), cmd.host.s)
                 THEN Lookup(HostvarsIn(MergedAll.v), cmd.host.s)
                 ELSE EmptyDict

----------------------------------------------------------------------------
(* get-ansible-vars.py: convert_ansible_to_terraform_vars.  Variable names
   are only ever compared for equality and are written as strings; str
   values stay sequences of code points. *)

NumExportVars == 8   \* variable names a host's variables are drawn from

direct_mappings ==
    <<<<"cluster_name", "cluster_name">>,
      <<"talos_version", "talos_version">>,
      <<"control_plane_count", "control_plane_count">>,
      <<"worker_count", "worker_count">>,
      <<"control_plane_vm_ids", "control_plane_vm_ids">>,
      <<"control_plane_ips", "control_plane_ips">>,
      <<"control_plane_cores", "control_plane_cores">>,
      <<"control_plane_memory", "control_plane_memory">>,
      <<"control_plane_disk_size", "control_plane_disk_size">>,
      <<"worker_vm_ids", "worker_vm_ids">>,
      <<"worker_ips", "worker_ips">>,
      <<"worker_cores", "worker_cores">>,
      <<"worker_memory", "worker_memory">>,
      <<"worker_disk_size", "worker_disk_size">>,
      <<"bridge_name", "bridge_name">>,
      <<"talos_network_cidr", "talos_network_cidr">>,
      <<"talos_network_gateway", "talos_network_gateway">>,
      <<"management_network_cidr", "management_network_cidr">>,
      <<"management_gateway", "management_gateway">>,
      <<"enable_nat_gateway", "enable_nat_gateway">>,
      <<"nat_gateway_vm_id", "nat_gateway_vm_id">>,
      <<"nat_gateway_management_ip", "nat_gateway_management_ip">>,
      <<"nat_gateway_cluster_ip", "nat_gateway_cluster_ip">>,
      <<"openwrt_version", "openwrt_version">>,
      <<"enable_firewall", "enable_firewall">>,
      <<"ssh_public_keys", "ssh_public_keys">>,
      <<"iso_pool", "iso_pool">>,
      <<"proxmox_default_iso_pool", "proxmox_default_iso_pool">>,
      <<"proxmox_user", "proxmox_user">>,
      <<"proxmox_password", "proxmox_password">>,
      <<"openwrt_template_file_id", "openwrt_template_file_id">>,
      <<"talos_image_file_id", "talos_image_file_id">>>>

defaults ==
    <<<<"control_plane_disk_size", PyStr(<<53, 48, 71>>)>>,   \* '50G'
      <<"worker_disk_size", PyStr(<<53, 48, 71>>)>>,   \* '50G'
      <<"bridge_name", PyStr(<<118, 109, 98, 114, 49>>)>>,   \* 'vmbr1'
      <<"talos_network_cidr", PyStr(<<49, 48, 46, 49, 48, 46, 48, 46, 48, 47, 50, 52>>)>>,   \* '10.10.0.0/24'
      <<"talos_network_gateway", PyStr(<<49, 48, 46, 49, 48, 46, 48, 46, 49>>)>>,   \* '10.10.0.1'
      <<"management_network_cidr", PyStr(<<49, 57, 50, 46, 49, 54, 56, 46, 48, 46, 48, 47, 50, 52>>)>>,   \* '192.168.0.0/24'
      <<"management_gateway", PyStr(<<49, 57, 50, 46, 49, 54, 56, 46, 48, 46, 49>>)>>,   \* '192.168.0.1'
      <<"enable_nat_gateway", PyBool(TRUE)>>,
      <<"nat_gateway_vm_id", PyInt(200)>>,
      <<"nat_gateway_management_ip", PyStr(<<49, 57, 50, 46, 49, 54, 56, 46, 48, 46, 49, 53, 48, 47, 50, 52>>)>>,   \* '192.168.0.150/24'
      <<"nat_gateway_cluster_ip", PyStr(<<49, 48, 46, 49, 48, 46, 48, 46, 50, 48, 48, 47, 50, 52>>)>>,   \* '10.10.0.200/24'
      <<"openwrt_version", PyStr(<<50, 51, 46, 48, 53, 46, 53>>)>>,   \* '23.05.5'
      <<"enable_firewall", PyBool(TRUE)>>,
      <<"ssh_public_keys", EmptyList>>>>

\* the loop over direct_mappings.items(); kv is what is left of the table
RECURSIVE MapDirect(_, _, _)
MapDirect(tf, kv, av) ==
    IF kv = <<>> THEN tf
    ELSE MapDirect(IF HasKey(av, kv[1][1])
                   THEN SetItem(tf, kv[1][2], Lookup(av, kv[1][1]))
                   ELSE tf,
                   Tail(kv), av)

\* "Add computed values"
AddComputed(tf, av) ==
    SetItem(SetItem(tf, "proxmox_node",
                    GetOr(av, "proxmox_node", PyStr(<<112, 118, 101, 48, 50>>))),
            "storage_pool",
            GetOr(av, "proxmox_default_storage_pool",
                  PyStr(<<115, 116, 111, 114, 97, 103, 101, 45, 118, 109, 115>>)))

\* a default that also replaces a supplied value that is falsy
DefaultWhenFalsy(tf, name, value) ==
    IF HasKey(tf, name) /\ Truthy(Lookup(tf, name)) THEN tf
    ELSE SetItem(tf, name, value)

\* if name not in tf_vars: tf_vars[name] = value
AddDefault(tf, name, value) ==
    IF HasKey(tf, name) THEN tf ELSE SetItem(tf, name, value)

\* "Add missing variables with defaults"; kv is what is left of the defaults
RECURSIVE AddDefaults(_, _)
AddDefaults(tf, kv) ==
    IF kv = <<>> THEN tf
    ELSE AddDefaults(AddDefault(tf, kv[1][1], kv[1][2]), Tail(kv))

convert_ansible_to_terraform_vars(av) ==
    AddDefaults(AddComputed(MapDirect(EmptyDict, direct_mappings, av), av),
                defaults)

\* the names a host's variables are drawn from: mapped and defaulted, mapped
\* only, read by the computed values, and known to nothing
AllExportNames ==
    <<"cluster_name", "bridge_name", "enable_firewall", "ssh_public_keys",
      "proxmox_node", "proxmox_default_storage_pool", "storage_pool",
      "custom_var", "nat_gateway_vm_id", "worker_disk_size">>
ExportNames == {AllExportNames[i] : i \in 1..NumExportVars}

\* what a host's variables hold under a name: nothing, the str 'x' or False
ExportOpts == {"absent", "x", "false"}

\* the host's variables under the choice c, in the order of AllExportNames
RECURSIVE VarsOf(_, _)
VarsOf(c, n) ==
    IF n = 0 THEN EmptyDict
    ELSE IF c[AllExportNames[n]] = "absent" THEN VarsOf(c, n - 1)
    ELSE SetItem(VarsOf(c, n - 1), AllExportNames[n],
                 IF c[AllExportNames[n]] = "x" THEN PyStr(<<120>>)
                 ELSE PyBool(FALSE))

\* the inventory process does not run
InventoryIdle ==
    /\ fs = [root |-> "missing", entries |-> [e \in EnvNames |-> NoDir]]
    /\ sops_available = FALSE
    /\ cmd = NoArgs
    /\ listing = <<>>
    /\ out = NoOutput
    /\ exit_code = 0
    /\ log = <<>>
    /\ pc = "idle"
    /\ merge_input = <<>>

ExportInit ==
    /\ InventoryIdle
    /\ \E c \in [ExportNames -> ExportOpts] : ansible_vars = VarsOf(c, NumExportVars)
    /\ tf_vars = PyNone

\* terraform_vars = convert_ansible_to_terraform_vars(ansible_vars)
Convert ==
    /\ tf_vars = PyNone
    /\ tf_vars' = convert_ansible_to_terraform_vars(ansible_vars)
    /\ UNCHANGED <<fs, sops_available, cmd, listing, out, exit_code, log, pc,
                   ansible_vars, merge_input>>

ExportNext == Convert

ExportSpec == ExportInit /\ [][ExportNext]_vars

----------------------------------------------------------------------------
(* C15 *)

Converted == tf_vars # PyNone

\* the input names and the output names of the mapping table, and the names
\* that have a default
MappedInputs == {direct_mappings[i][1] : i \in 1..Len(direct_mappings)}
MappedOutputs == {direct_mappings[i][2] : i \in 1..Len(direct_mappings)}
Defaulted == {defaults[i][1] : i \in 1..Len(defaults)}

\* C15: once converted, every input variable of the mapping table is in the
\* output under its mapped name with its value; every output name is a mapped
\* name, proxmox_node or storage_pool, and a mapped name without a default is
\* there only when the input has it; a defaulted parameter holds its default
\* exactly when the input lacks it, and the supplied value otherwise
C15_ExportMapsAndDefaults ==
    Converted =>
        /\ \A i \in 1..Len(direct_mappings) :
              HasKey(ansible_vars, direct_mappings[i][1]) =>
                  /\ HasKey(tf_vars, direct_mappings[i][2])
                  /\ Lookup(tf_vars, direct_mappings[i][2])
                        = Lookup(ansible_vars, direct_mappings[i][1])
        /\ \A n \in 1..Len(tf_vars.kv) :
              \/ tf_vars.kv[n][1] \in {"proxmox_node", "storage_pool"}
              \/ /\ tf_vars.kv[n][1] \in MappedOutputs
                 /\ \/ tf_vars.kv[n][1] \in Defaulted
                    \/ \E i \in 1..Len(direct_mappings) :
                          /\ direct_mappings[i][2] = tf_vars.kv[n][1]
                          /\ HasKey(ansible_vars, direct_mappings[i][1])
        /\ \A i \in 1..Len(defaults) :
              /\ HasKey(tf_vars, defaults[i][1])
              /\ Lookup(tf_vars, defaults[i][1])
                    = IF HasKey(ansible_vars, defaults[i][1])
                      THEN Lookup(ansible_vars, defaults[i][1])
                      ELSE defaults[i][2]
        /\ \A n, m \in 1..Len(tf_vars.kv) :
              tf_vars.kv[n][1] = tf_vars.kv[m][1] => n = m

\* converted variables in which a defaulted parameter was supplied as False
\* and kept, another one was absent and got its default, and a variable
\* outside the table was supplied and is not in the output
C15_Witness ==
    /\ Converted
    /\ HasKey(ansible_vars, "enable_firewall")
    /\ Lookup(ansible_vars, "enable_firewall") = PyBool(FALSE)
    /\ Lookup(tf_vars, "enable_firewall") = PyBool(FALSE)
    /\ ~HasKey(ansible_vars, "bridge_name")
    /\ Lookup(tf_vars, "bridge_name") = PyStr(<<118, 109, 98, 114, 49>>)
    /\ HasKey(ansible_vars, "custom_var")
    /\ ~HasKey(tf_vars, "custom_var")
    /\ HasKey(ansible_vars, "cluster_name")
    /\ HasKey(tf_vars, "cluster_name")

----------------------------------------------------------------------------
(* C16 *)

\* the names of the groups e's tree defines
GroupsOf(e) ==
    IF ~IsDict(Tree(e)) THEN {}
    ELSE {Tree(e).kv[i][1] : i \in {j \in 1..Len(Tree(e).kv) :
                                      Tree(e).kv[j][1] \notin {S_all, S_meta}}}

\* C16 as stated: after a merge, every host that a hosts list of a group of a
\* merged environment names has an entry in the printed _meta.hostvars, and
\* every group of a merged environment's tree is printed with the definition
\* of the last merged environment that defines a group of that name, whatever
\* tree the loader returned
C16_EveryGroupAndHostMerged ==
    MergedRun =>
        /\ \A h \in Hosts, i \in 1..Len(MergedNames) :
              Lists(MergedNames[i], h) => HasKey(HostvarsOut, h)
        /\ \A i \in 1..Len(MergedNames) :
              \A g \in GroupsOf(MergedNames[i]) :
                  (\A j \in (i + 1)..Len(MergedNames) : g \notin GroupsOf(MergedNames[j]))
                      => /\ HasKey(out, g)
                         /\ Lookup(out, g) = Lookup(Tree(MergedNames[i]), g)

----------------------------------------------------------------------------
(* C17 *)

\* all.children of the printed document
ChildrenOut == Sub2(out, S_all, S_children)

\* C17 as stated: after a merge, the printed root all.children is a list
\* holding the names of the merged environments, each once, and nothing else
C17_ChildrenAreTheEnvironments ==
    MergedRun =>
        /\ IsList(ChildrenOut)
        /\ {ChildrenOut.l[n] : n \in 1..Len(ChildrenOut.l)}
              = {PyStr(MergedNames[i]) : i \in 1..Len(MergedNames)}
        /\ \A n, m \in 1..Len(ChildrenOut.l) :
              ChildrenOut.l[n] = ChildrenOut.l[m] => n = m

----------------------------------------------------------------------------
(* C18 *)

\* the tree the validator loaded for environment e
ValidatedTree(e) == _load_inventory_file(ValidatedFile(fs.entries[e]), sops_available).v

\* the warnings of e's entry in the printed report
WarningsOf(e) == Lookup(Lookup(EnvReports, e), S_warnings).l

\* the warning for host h lacking the required field
MissingWarning(h, field) == PyStr(M_host \o h \o M_missing \o field)

\* e's validated tree is of the normalized shape as far as h goes:
\* all.children is a list, and a group's `hosts` list names h
NormalizedListing(e, h) ==
    /\ IsDict(ValidatedTree(e))
    /\ AllHas(ValidatedTree(e), S_children) = "yes"
    /\ IsList(Sub2(ValidatedTree(e), S_all, S_children))
    /\ \E i \in 1..Len(ValidatedTree(e).kv) :
          /\ ValidatedTree(e).kv[i][1] \notin {S_all, S_meta}
          /\ IsDict(ValidatedTree(e).kv[i][2])
          /\ HasKey(ValidatedTree(e).kv[i][2], S_hosts)
          /\ IsList(Lookup(ValidatedTree(e).kv[i][2], S_hosts))
          /\ \E j \in 1..Len(Lookup(ValidatedTree(e).kv[i][2], S_hosts).l) :
                Lookup(ValidatedTree(e).kv[i][2], S_hosts).l[j] = PyStr(h)

\* C18 as stated, for the normalized shape: a host that a hosts list of a
\* group names carries no variables in the tree, so it lacks every required
\* field, and the report of its environment warns about each of them
C18_NormalizedHostsAreChecked ==
    Reported =>
        \A i \in 1..Len(Discovered.v), h \in Hosts :
            NormalizedListing(Discovered.v[i], h) =>
                \A f \in 1..Len(required_fields) :
                    \E n \in 1..Len(WarningsOf(Discovered.v[i])) :
                        WarningsOf(Discovered.v[i])[n]
                            = MissingWarning(h, required_fields[f])

----------------------------------------------------------------------------
(* C19 *)

\* file x exists and cannot be read, parsed or decrypted
FileFails(x) ==
    /\ x.exists
    /\ \/ ~x.readable
       \/ x.marked /\ ~DecryptSucceeds(x)
       \/ ~x.marked /\ x.yaml = ParseError

\* the inventory file get_inventory reads for e fails to load
LoadFails(e) ==
    IF fs.entries[e].toml.exists THEN ~fs.entries[e].toml.readable
    ELSE FileFails(fs.entries[e].yaml)

\* a secret bundle of e cannot be decrypted
BundleFails(e) ==
    /\ fs.entries[e].host_vars.kind = "dir"
    /\ \E i \in 1..Len(fs.entries[e].host_vars.dirs) :
          /\ fs.entries[e].host_vars.dirs[i][2].kind = "dir"
          /\ fs.entries[e].host_vars.dirs[i][2].secrets.exists
          /\ fs.entries[e].host_vars.dirs[i][2].secrets.readable
          /\ fs.entries[e].host_vars.dirs[i][2].secrets.marked
          /\ ~DecryptSucceeds(fs.entries[e].host_vars.dirs[i][2].secrets)

\* e's tree defines groups, and its shape keeps them out of the merge
ShapeSkips(e) == GroupsOf(e) # {} /\ AllHas(Tree(e), S_children) = "no"

\* C19 as stated: a --list that drops data of an environment it merges (the
\* inventory file fails to load, a secret bundle cannot be decrypted, or the
\* tree's shape keeps its groups and hosts out of the merge) logs at least
\* one record at WARNING or above
C19_NoSilentPartialResult ==
    (Exited /\ Branch(cmd) = "list" /\ ~Discovered.raised) =>
        \A i \in 1..Len(Discovered.v) :
            (/\ Truthy(cmd.env) => cmd.env = PyStr(Discovered.v[i])
             /\ \/ LoadFails(Discovered.v[i])
                \/ BundleFails(Discovered.v[i])
                \/ ShapeSkips(Discovered.v[i]))
            => log # <<>>

----------------------------------------------------------------------------
(* C20 *)

\* the run is a --list of the single discovered environment e
FilteredRun(e) ==
    /\ Exited
    /\ Branch(cmd) = "list"
    /\ cmd.env = PyStr(e)
    /\ ~Discovered.raised
    /\ \E i \in 1..Len(Discovered.v) : Discovered.v[i] = e

\* the repository with every environment but e removed
Only(e) ==
    [fs EXCEPT !.entries = [n \in EnvNames |-> IF n = e THEN fs.entries[n] ELSE NoDir]]

\* a --list of everything
ListEverything == [NoArgs EXCEPT !.list = TRUE]

\* environment_info of the printed document
InfoOut == Sub2(out, S_meta, S_environment_info)

\* key k of the printed all.vars is a variable of e under its prefix
VarOf(e, k) ==
    \/ \E n \in 1..Len(AllVars(e).kv) : k = Prefixed(e, AllVars(e).kv[n][1])
    \/ \E n \in 1..Len(GroupVars(e).kv) : k = Prefixed(e, GroupVars(e).kv[n][1])

\* C20: a --list of a single discovered environment E prints, logs and exits
\* as a --list of everything does over the repository holding E alone; when
\* it prints a document, environment_info has the key E only, every host of
\* _meta.hostvars is in a hosts list of E's tree, every key of all.vars is a
\* variable of E and every group is a group of E's tree
C20_FilterIsMergeOfOne ==
    \A e \in EnvNames :
        FilteredRun(e) =>
            /\ main(ListEverything, Only(e), sops_available, <<e>>)
                  = [out |-> out, exit_code |-> exit_code, log |-> log]
            /\ exit_code = 0 =>
                  /\ Keys(InfoOut) = <<e>>
                  /\ \A n \in 1..Len(HostvarsOut.kv) :
                        \E i \in 1..Len(Tree(e).kv) :
                            /\ Tree(e).kv[i][1] \notin {S_all, S_meta}
                            /\ In(S_hosts, Tree(e).kv[i][2])
                            /\ \E j \in 1..Len(Lookup(Tree(e).kv[i][2], S_hosts).l) :
                                  Lookup(Tree(e).kv[i][2], S_hosts).l[j]
                                      = PyStr(HostvarsOut.kv[n][1])
                  /\ \A n \in 1..Len(VarsOut.kv) : VarOf(e, VarsOut.kv[n][1])
                  /\ \A n \in 1..Len(out.kv) :
                        out.kv[n][1] \in {S_all, S_meta} \cup GroupsOf(e)

\* a --list of one of two discovered environments whose hosts.yaml list the
\* same host with different variables: the entry of the host is the
\* requested environment's, and the other environment has a group of its own
\* that is not printed
C20_Witness ==
    \E e \in EnvNames :
        /\ FilteredRun(e)
        /\ exit_code = 0
        /\ Len(Discovered.v) = 2
        /\ \E o \in EnvNames \ {e} :
              /\ \E i \in 1..Len(Discovered.v) : Discovered.v[i] = o
              /\ o \in GroupsOf(o)
              /\ ~HasKey(out, o)
              /\ \E h \in Hosts : Lists(o, h) /\ Lists(e, h)
        /\ Keys(InfoOut) = <<e>>
        /\ HostvarsOut.kv # <<>>
        /\ VarsOut.kv # <<>>

----------------------------------------------------------------------------
(* C21 *)

\* environment number i is the last merged environment that lists h
LastLister(i, h) ==
    /\ Lists(MergedNames[i], h)
    /\ \A j \in (i + 1)..Len(MergedNames) : ~Lists(MergedNames[j], h)

\* C21 as stated: after a merge, every entry of the printed _meta.hostvars
\* has an `environment` attribute, and it names the last merged environment
\* that lists the host in a group, whatever the host_vars files and the
\* secret bundle of the host hold
C21_EnvironmentTagNamesLastLister ==
    MergedRun =>
        \A n \in 1..Len(HostvarsOut.kv) :
            /\ HasKey(HostvarsOut.kv[n][2], S_environment)
            /\ \E i \in 1..Len(MergedNames) :
                  /\ LastLister(i, HostvarsOut.kv[n][1])
                  /\ Lookup(HostvarsOut.kv[n][2], S_environment)
                        = PyStr(MergedNames[i])

----------------------------------------------------------------------------
(* C22 *)

\* environment number i lists h and sets its variable k, in a host_vars file
\* or in the secret bundle
Gives(i, h, k) ==
    /\ Lists(MergedNames[i], h)
    /\ HasKey(Layered(MergedNames[i], h), k)

\* C22 as stated: after a merge, a variable that a merged environment listing
\* the host sets for it, in host_vars or in a secret bundle, and that no
\* environment merged later and listing the host sets again, is in the
\* host's printed entry with that environment's value
C22_EarlierVariablesSurvive ==
    MergedRun =>
        \A h \in Hosts, i \in 1..Len(MergedNames) :
            \A n \in 1..Len(Layered(MergedNames[i], h).kv) :
                (/\ Lists(MergedNames[i], h)
                 /\ Layered(MergedNames[i], h).kv[n][1] # S_environment
                 /\ \A j \in (i + 1)..Len(MergedNames) :
                       ~Gives(j, h, Layered(MergedNames[i], h).kv[n][1]))
                => Holds(h, Layered(MergedNames[i], h).kv[n][1],
                         Layered(MergedNames[i], h).kv[n][2])

----------------------------------------------------------------------------
(* C23 *)

S_terraform_vars == <<116, 101, 114, 114, 97, 102, 111, 114, 109, 95, 118, 97, 114, 115>>
S_unknown == <<117, 110, 107, 110, 111, 119, 110>>                  \* "unknown"

\* AnsibleDataSource.get_host_info over the run r of
\* `dynamic_inventory.py --host <hostname> [--env <environment>]` it spawns:
\* subprocess.run(check=True) raises on a non-zero status, and the printed
\* JSON document is read back as the value that was dumped
get_host_info(hostname, environment, r) ==
    IF r.exit_code # 0 \/ ~IsDict(r.out)
    THEN [hostname |-> hostname,
          environment |-> IF Truthy(environment) THEN environment.s ELSE S_unknown,
          ansible_data |-> EmptyDict, terraform_vars |-> EmptyDict,
          success |-> FALSE]
    ELSE [hostname |-> hostname,
          environment |-> IF Truthy(environment) THEN environment.s ELSE S_unknown,
          ansible_data |-> r.out,
          terraform_vars |-> GetOr(r.out, S_terraform_vars, EmptyDict),
          success |-> TRUE]

\* the run is a --host query, with any --env
HostBranch == Exited /\ Branch(cmd) = "host"


\* what the adapter returns for the run of the state
HostInfo == get_host_info(cmd.host.s, cmd.env, [out |-> out, exit_code |-> exit_code])

\* the entry of the queried host in the merged document doc
EntryIn(doc) == GetOr(HostvarsIn(doc), cmd.host.s, EmptyDict)

\* the run printed, and the adapter hands on, what the merge m holds for the
\* queried host; both fail when m failed
Answers(m) ==
    IF m.raised
    THEN exit_code = 1 /\ out = NoOutput /\ ~HostInfo.success
    ELSE /\ exit_code = 0
         /\ out = EntryIn(m.v)
         /\ HostInfo.success
         /\ HostInfo.ansible_data = EntryIn(m.v)

\* C23: whatever --env is (none, a known or an unknown name), a --host h
\* query prints the entry of h in the merge of all environments, or fails
\* when that merge fails, and get_host_info hands that value on
C23_HostQueryIgnoresFilter == HostBranch => Answers(MergedAll)

\* the merge m holds another entry for the host than the one printed
Differs(m) == ~m.raised /\ out # EntryIn(m.v)

\* a --host query under an --env filter, where the merge of the filtered
\* environment alone holds another entry for the host than the one printed
C23_Witness ==
    /\ HostBranch
    /\ Truthy(cmd.env)
    /\ exit_code = 0
    /\ out # EmptyDict
    /\ Differs(get_inventory(fs, sops_available, listing, cmd.env))

----------------------------------------------------------------------------
(* The merge on its own: _merge_inventories over the trees get_inventory
   loaded from a repository that may hold an environment named `all`.  The
   state after construction and loading is pc = "loaded"; the single step is
   the call, after which pc = "merged", out is the merged document and
   merge_input is the argument as the call left it. *)

MergeEnvNames == <<<<97>>, S_all, <<98>>>>          \* "a", "all", "b"
MergeNames == {MergeEnvNames[i] : i \in 1..Len(MergeEnvNames)}

\* hosts.yaml of the environment named `all`: its one `all` group and the
\* groups web (h1) and db (no host)
AllTree(all_group) ==
    PyDict(<< AllOf(all_group), WebOf(PyList(<<PyStr(N_h1)>>)),
              <<N_db, PyDict(<< <<S_hosts, EmptyList>> >>)>> >>)
Kids == <<S_children, PyList(<<PyStr(N_web), PyStr(N_db)>>)>>

AllShapes == {"absent", "listed", "unlisted", "vars", "no_vars", "no_children"}
AllGroup(sh) ==
    CASE sh = "listed" -> PyDict(<< Kids, <<S_vars, EmptyDict>> >>)
      [] sh = "unlisted" ->
            PyDict(<< <<S_children, EmptyList>>, <<S_vars, EmptyDict>> >>)
      [] sh = "vars" -> PyDict(<< Kids, <<S_vars, EnvVars(S_all, "c")>> >>)
      [] sh = "no_vars" -> PyDict(<< Kids >>)
      [] sh = "no_children" -> PyDict(<< <<S_vars, EnvVars(S_all, "c")>> >>)
AllEnv(sh, gv) ==
    IF sh = "absent" THEN NoDir
    ELSE EnvDir(NoToml, YamlFile(AllTree(AllGroup(sh))),
                HostVarsFor(S_all, "set", "k"), GroupVarsFor(S_all, gv))

\* the environments a and b: absent, or normal with or without all.vars
OtherOpts == {"absent", "none", "c"}
OtherEnv(e, o) ==
    IF o = "absent" THEN NoDir ELSE NormalEnv(e, "one", "set", "k", o, "none")

MergeFs ==
    {Fs([e \in MergeNames |->
            IF e = S_all THEN AllEnv(sh, gv) ELSE OtherEnv(e, c[e])]) :
        sh \in AllShapes, gv \in GroupVarOpts,
        c \in [MergeNames \ {S_all} -> OtherOpts]}

\* what get_inventory passes to the merge: the trees of the discovered
\* environments, in sorted order
LoadedTrees(f, avail) ==
    LoadAll(Logged(<<>>, <<>>), f, avail,
            _discover_environments(f, MergeEnvNames).v)

\* get_inventory reaches the merge with r when nothing raised and there is
\* an environment
Passes(r) == ~r.raised /\ r.v # <<>> /\ merge_input = r.v

MergeInit ==
    /\ fs \in MergeFs
    /\ sops_available \in BOOLEAN
    /\ Passes(LoadedTrees(fs, sops_available))
    /\ pc = "loaded"
    /\ cmd = NoArgs
    /\ listing = MergeEnvNames
    /\ out = NoOutput
    /\ exit_code = 0
    /\ log = <<>>
    /\ ansible_vars = EmptyDict
    /\ tf_vars = PyNone

\* the call has ended with the locals st
Returns(st) ==
    /\ pc' = "merged"
    /\ out' = IF st.raised THEN NoOutput ELSE st.m
    /\ exit_code' = IF st.raised THEN 1 ELSE 0
    /\ log' = st.log
    /\ merge_input' = InputsAfter(st, merge_input)
    /\ UNCHANGED <<fs, sops_available, cmd, listing, ansible_vars, tf_vars>>

\* merged = self._merge_inventories(inventories)
MergeInventories ==
    /\ pc = "loaded"
    /\ Returns(MergeLoop(MergeStart, fs, sops_available, merge_input))

MergeNext == MergeInventories

MergeSpec == MergeInit /\ [][MergeNext]_vars

----------------------------------------------------------------------------
(* C24 *)

\* C24 as stated: the call of _merge_inventories leaves every environment
\* tree passed to it as it was, also when an environment is named `all`
C24_MergeLeavesInputUnchanged == [][merge_input' = merge_input]_vars

----------------------------------------------------------------------------
(* C25 *)

\* the groups of a tree: its top-level entries other than all and _meta
TopGroups(tree) ==
    IF ~IsDict(tree) THEN {}
    ELSE {i \in 1..Len(tree.kv) : tree.kv[i][1] \notin {S_all, S_meta}}

\* the number of entries of the hosts list of a group
HostEntries(group) ==
    IF IsDict(group) /\ HasKey(group, S_hosts) /\ IsList(Lookup(group, S_hosts))
    THEN Len(Lookup(group, S_hosts).l)
    ELSE 0

\* the entries of the hosts lists of the groups numbered in `groups`, summed
RECURSIVE TotalHosts(_, _)
TotalHosts(tree, groups) ==
    IF groups = {} THEN 0
    ELSE LET i == CHOOSE j \in groups : TRUE
         IN  HostEntries(tree.kv[i][2]) + TotalHosts(tree, groups \ {i})

\* host directory number n of environment e holds an encrypted bundle that
\* decrypts to a non-empty document
Decrypts(e, n) ==
    LET d == fs.entries[e].host_vars.dirs[n][2]
    IN  /\ d.kind = "dir"
        /\ d.secrets.exists /\ d.secrets.readable /\ d.secrets.marked
        /\ sops_available
        /\ d.secrets.sops.r = "ok"
        /\ d.secrets.sops.out # ParseError
        /\ Truthy(d.secrets.sops.out)

BundleCount(e) ==
    IF fs.entries[e].host_vars.kind # "dir" THEN 0
    ELSE Cardinality({n \in 1..Len(fs.entries[e].host_vars.dirs) : Decrypts(e, n)})

\* the environment_info entry info tells the counts of the tree of e
Counts(info, e, tree) ==
    /\ Lookup(info, S_hosts_count) = PyInt(TotalHosts(tree, TopGroups(tree)))
    /\ Lookup(info, S_groups_count) = PyInt(Cardinality(TopGroups(tree)))
    /\ Lookup(info, S_sops_secrets_count) = PyInt(BundleCount(e))

\* C25 as stated: after a merge, every merged environment has an
\* environment_info entry whose hosts_count is the number of entries of the
\* hosts lists of its groups, whose groups_count is the number of its
\* top-level keys other than all and _meta, and whose sops_secrets_count is
\* the number of its host directories with a decrypted non-empty bundle
C25_CountsOfEveryEnvironment ==
    MergedRun =>
        \A i \in 1..Len(MergedNames) :
            /\ HasKey(InfoOut, MergedNames[i])
            /\ Counts(Lookup(InfoOut, MergedNames[i]), MergedNames[i],
                      Tree(MergedNames[i]))

====
